---- MODULE Spec2Model ----
(***************************************************************************)
(* haBit: the habit-tracker NFT contract (contract/src/lib.rs) and the     *)
(* badge schedule of its client (src/nft.rs).                              *)
(*                                                                         *)
(* Seven specifications share the variables below:                         *)
(*   Spec        validate_habit_logic applied to bounded inputs            *)
(*   SpecBadges  get_badges_for_sessions (contract and client) applied to  *)
(*               every session count of the modelled width                 *)
(*   SpecChain   one token on the ledger: a genesis spell followed by      *)
(*               update spells, each gated by nft_contract_satisfied       *)
(*   SpecClient  one run of a client operation of src/nft.rs: the          *)
(*               descriptor builders (create_nft, create_nft_unsigned,     *)
(*               update_nft, update_nft_unsigned), view_nft, the prover    *)
(*               call and settlement (sign_and_broadcast_create / _update, *)
(*               broadcast_nft)                                            *)
(*   SpecClientFair  SpecClient with every call returning                  *)
(*   SpecFlows   two update_nft runs interleaving on one wallet and one    *)
(*               single-spend ledger                                       *)
(*   SpecApps    create_nft / create_nft_unsigned called one after the     *)
(*               other, with the app ids they give out                     *)
(*                                                                         *)
(* Non-ASCII characters of the label strings are written as their code     *)
(* points (U+XXXX), in the order the source file holds them.               *)
(***************************************************************************)
EXTENDS Integers, Sequences, FiniteSets, TLC

(***************************************************************************)
(* Integer widths.  u64 and i64 are modelled at a reduced width: U64_MAX   *)
(* stands for u64::MAX and I64_MAX for i64::MAX; arithmetic wraps or       *)
(* panics at these limits exactly as it does at the real ones.             *)
(***************************************************************************)
U64_MAX == 1023

I64_MAX == 7

I64_MIN == -I64_MAX - 1

U64 == 0..U64_MAX

I64 == I64_MIN..I64_MAX

\* u64 `a + b`: does the mathematical sum leave the type?
AddU64Overflows(a, b) == a + b > U64_MAX

\* u64 `a + b` without overflow checks (two's complement wrap)
WrappingAddU64(a, b) == (a + b) % (U64_MAX + 1)

\* i64 `a - b`: does the mathematical difference leave the type?
SubI64Overflows(a, b) == (a - b > I64_MAX) \/ (a - b < I64_MIN)

\* i64 `a - b` without overflow checks (two's complement wrap)
WrappingSubI64(a, b) == ((a - b - I64_MIN) % (I64_MAX - I64_MIN + 1)) + I64_MIN

(***************************************************************************)
(* Option<T>: None is the empty sequence, Some(x) the one-element one.     *)
(***************************************************************************)
None == << >>

Some(x) == << x >>

is_some(o) == o # None

is_none(o) == o = None

unwrap(o) == o[1]

(***************************************************************************)
(* The contract (contract/src/lib.rs)                                      *)
(***************************************************************************)
MIN_UPDATE_INTERVAL_SECS == 5

\* The 21 `if sessions >= t { badges.push(label) }` statements of the
\* contract's get_badges_for_sessions, in source order.
BadgeIfChain ==
  << <<1, "U+1F338 First Blood">>,
     <<3, "U+2694 U+FE0F Three Cuts">>,
     <<7, "U+1F525 Week Warrior">>,
     <<11, "U+1F30A Rising Tide">>,
     <<15, "U+26E9 U+FE0F Temple Guardian">>,
     <<22, "U+1F4A5 Destruction Complete">>,
     <<23, "U+1F528 The Forge Begins">>,
     <<30, "U+1F5E1 U+FE0F Month of Steel">>,
     <<33, "U+26A1 Thunder Strike">>,
     <<40, "U+1F319 Moonlit Path">>,
     <<44, "U+1F38C Installation Complete">>,
     <<45, "U+1F305 Dawn of Mastery">>,
     <<50, "U+1F3D4 U+FE0F Mountain Summit">>,
     <<55, "U+1F409 Dragon Awakens">>,
     <<60, "U+2B50 Celestial Alignment">>,
     <<66, "U+1F451 Shogun">>,
     <<100, "U+1F4AF Century Samurai">>,
     <<200, "U+1F338 U+2694 U+FE0F Twin Blades">>,
     <<365, "U+1F3EF Daimyo">>,
     <<500, "U+1F52E Mystic Warrior">>,
     <<1000, "U+26E9 U+FE0F U+1F451 Living Legend">> >>

\* One `if` statement of the chain: push the label when the threshold is met.
MutantPushIfReachedStrict(badges, stmt, sessions) ==
  IF sessions > stmt[1] THEN Append(badges, stmt[2]) ELSE badges

MutantPushIfExactly(badges, stmt, sessions) ==
  IF sessions = stmt[1] THEN Append(badges, stmt[2]) ELSE badges

PushIfReached(badges, stmt, sessions) ==
  IF sessions >= stmt[1] THEN Append(badges, stmt[2]) ELSE badges

\* Statements i.. of the chain run in order on the vector built so far.
RECURSIVE RunIfChain(_, _, _)
RunIfChain(i, badges, sessions) ==
  IF i > Len(BadgeIfChain) THEN badges
  ELSE RunIfChain(i + 1, PushIfReached(badges, BadgeIfChain[i], sessions), sessions)

get_badges_for_sessions(sessions) == RunIfChain(1, << >>, sessions)

(***************************************************************************)
(* The client's schedule (src/nft.rs)                                      *)
(***************************************************************************)
BADGE_MILESTONES ==
  << <<1, "U+F8FF U+00FC U+00E5 U+220F First Blood">>,
     <<3, "U+201A U+00F6 U+00EE U+00D4 U+220F U+00E8 Three Cuts">>,
     <<7, "U+F8FF U+00FC U+00EE U+2022 Week Warrior">>,
     <<11, "U+F8FF U+00FC U+00E5 U+00E4 Rising Tide">>,
     <<15, "U+201A U+00F5 U+00A9 U+00D4 U+220F U+00E8 Temple Guardian">>,
     <<22, "U+F8FF U+00FC U+00ED U+2022 Destruction Complete">>,
     <<23, "U+F8FF U+00FC U+00EE U+00AE The Forge Begins">>,
     <<30, "U+F8FF U+00FC U+00F3 U+00B0 U+00D4 U+220F U+00E8 Month of Steel">>,
     <<33, "U+201A U+00F6 U+00B0 Thunder Strike">>,
     <<40, "U+F8FF U+00FC U+00E5 U+00F4 Moonlit Path">>,
     <<44, "U+F8FF U+00FC U+00E9 U+00E5 Installation Complete">>,
     <<45, "U+F8FF U+00FC U+00E5 U+00D6 Dawn of Mastery">>,
     <<50, "U+F8FF U+00FC U+00E8 U+00EE U+00D4 U+220F U+00E8 Mountain Summit">>,
     <<55, "U+F8FF U+00FC U+00EA U+00E2 Dragon Awakens">>,
     <<60, "U+201A U+2260 U+00EA Celestial Alignment">>,
     <<66, "U+F8FF U+00FC U+00EB U+00EB Shogun">>,
     <<100, "U+F8FF U+00FC U+00ED U+00D8 Century Samurai">>,
     <<200, "U+F8FF U+00FC U+00E5 U+220F U+201A U+00F6 U+00EE U+00D4 U+220F U+00E8 Twin Blades">>,
     <<365, "U+F8FF U+00FC U+00E8 U+00D8 Daimyo">>,
     <<500, "U+F8FF U+00FC U+00EE U+00C6 Mystic Warrior">>,
     <<1000, "U+201A U+00F5 U+00A9 U+00D4 U+220F U+00E8 U+F8FF U+00FC U+00EB U+00EB Living Legend">> >>

\* BADGE_MILESTONES.iter().filter(|(threshold, _)| sessions >= *threshold)
\*                 .map(|(_, badge)| badge.to_string()).collect()
nft_get_badges_for_sessions(sessions) ==
  LET Reached(m) == sessions >= m[1]
      kept == SelectSeq(BADGE_MILESTONES, Reached)
  IN  [i \in 1..Len(kept) |-> kept[i][2]]

(***************************************************************************)
(* State                                                                   *)
(***************************************************************************)
VARIABLES
  overflow_checks,   \* the build profile: TRUE = arithmetic overflow panics
                     \* (debug, `cargo test`), FALSE = it wraps (release)
  input_nft,         \* validate_habit_logic: argument `input_nft`
  output,            \* validate_habit_logic: argument `output` of the last
                     \* call, wrapped in Some; None before the first call
  result,            \* outcome of the last call ("NotCalled" before it)
  sessions,          \* get_badges_for_sessions: argument
  contract_badges,   \* what the contract's function returned for `sessions`
  client_badges,     \* what the client's function returned for `sessions`
  badges_computed,   \* have the two functions been applied to `sessions`?
  utxo,              \* the token's unspent ledger state, None before genesis
  updates,           \* number of update spells the ledger accepted
  genesis_sessions,  \* total_sessions of the genesis state, None before it
  verdict,           \* outcome of the last spell's contract evaluation
  op,                \* the client operation that is running, "None" before
  pc,                \* its position: the external call it waits for
  network,           \* btc.get_blockchain_info().chain
  now,               \* chrono::Utc::now().timestamp() of this run
  nft,               \* update: the token output named by `nft_utxo` as the
                     \* ledger holds it (state, script, amount); None at
                     \* genesis
  funding,           \* the funding output the operation uses, None before
  spell,             \* the spell handed to prove_with_cli, None before
  prover_calls,      \* number of prove_with_cli invocations
  bitcoin_txs,       \* the transactions the prover returned
  signing_info,      \* the signing plan returned by an unsigned builder
  prevouts,          \* prevouts passed to the wallet with the spell tx
  calls,             \* wallet and broadcast calls made, with their outcomes
  outcome,           \* "Running", "Ok" or the error the operation returned
  ledger_txs,        \* transactions of this run that the ledger accepted
  response,          \* the transaction identifiers in the value settlement
                     \* returned: commit then spell on Ok, none otherwise
  app_ids,           \* the app ids of the genesis spells built so far, in
                     \* the order of the calls that built them
  flows,             \* concurrent update_nft runs: position, arguments and
                     \* locals of each
  unspent,           \* the ledger's unspent outputs, in list_unspent order
  spent_outputs      \* the outputs the ledger has seen spent

vars == << overflow_checks, input_nft, output, result, sessions,
           contract_badges, client_badges, badges_computed, utxo, updates,
           genesis_sessions, verdict, op, pc, network, now, nft, funding,
           spell, prover_calls, bitcoin_txs, signing_info, prevouts, calls,
           outcome, ledger_txs, response, app_ids, flows, unspent,
           spent_outputs >>

validate_vars == << input_nft, output, result >>

badge_vars == << sessions, contract_badges, client_badges, badges_computed >>

chain_vars == << utxo, updates, genesis_sessions, verdict >>

flow_vars == << flows, unspent, spent_outputs >>

client_vars == << op, pc, network, now, nft, funding, spell, prover_calls,
                  bitcoin_txs, signing_info, prevouts, calls, outcome,
                  ledger_txs, response, app_ids >>

(***************************************************************************)
(* validate_habit_logic.  The function returns a bool and names the rule   *)
(* that failed on stderr; the model returns the name of the branch taken.  *)
(* "Creation" and "Valid" are the two `true` returns, "Panic" is an        *)
(* arithmetic-overflow panic, every other outcome is a `false` return.     *)
(***************************************************************************)
Accepted(r) == r \in {"Creation", "Valid"}

\* Rule 1: `input.owner != output.owner` rejects
MutantOwnerOrHabitChanged(input, out) ==
  input.owner # out.owner \/ input.habit_name # out.habit_name

MutantOwnerUnchecked(input, out) == FALSE

OwnerChanged(input, out) == input.owner # out.owner

\* Rule 2: `input.total_sessions + 1` panics under overflow checks
IncrementPanics(input) ==
  overflow_checks /\ AddU64Overflows(input.total_sessions, 1)

\* Rule 2: `output.total_sessions != input.total_sessions + 1` rejects
BadIncrement(input, out) ==
  out.total_sessions # WrappingAddU64(input.total_sessions, 1)

\* Rule 3: `if let (Some(last), Some(now)) = (input.last_updated, output.last_updated)`
TimeChecked(input, out) ==
  is_some(input.last_updated) /\ is_some(out.last_updated)

\* Rule 3: `now - last` panics under overflow checks
ElapsedPanics(input, out) ==
  /\ TimeChecked(input, out)
  /\ overflow_checks
  /\ SubI64Overflows(unwrap(out.last_updated), unwrap(input.last_updated))

\* Rule 3: `elapsed < MIN_UPDATE_INTERVAL_SECS` rejects
UpdateTooSoon(input, out) ==
  /\ TimeChecked(input, out)
  /\ WrappingSubI64(unwrap(out.last_updated), unwrap(input.last_updated))
       < MIN_UPDATE_INTERVAL_SECS

\* Rule 4: `output.badges != get_badges_for_sessions(output.total_sessions)`
MutantBadgesOfInputSessions(input, out) ==
  out.badges # get_badges_for_sessions(input.total_sessions)

BadgesWrong(input, out) ==
  out.badges # get_badges_for_sessions(out.total_sessions)

\* Rules 1 to 4, in source order; the first that fails returns
UpdateRules(input, out) ==
  IF OwnerChanged(input, out) THEN "OwnerMismatch"
  ELSE IF IncrementPanics(input) THEN "Panic"
  ELSE IF BadIncrement(input, out) THEN "InvalidIncrement"
  ELSE IF ElapsedPanics(input, out) THEN "Panic"
  ELSE IF UpdateTooSoon(input, out) THEN "TooSoon"
  ELSE IF BadgesWrong(input, out) THEN "BadgeMismatch"
  ELSE "Valid"

MutantValidateCreationChecked(in_nft, out) ==
  IF is_none(in_nft)
  THEN IF is_none(out.last_updated) THEN "Creation" ELSE "CreationRefused"
  ELSE UpdateRules(unwrap(in_nft), out)

\* `if input_nft.is_none() { return true; }`, else the four rules
validate_habit_logic(in_nft, out) ==
  IF is_none(in_nft) THEN "Creation"
  ELSE UpdateRules(unwrap(in_nft), out)

\* a contract that lets a spend of the token go through without a token output
MutantContractAcceptsBurn(tx_in, tx_out) ==
  IF is_none(tx_out)
  THEN IF is_none(tx_in) THEN "MissingOutput" ELSE "Valid"
  ELSE validate_habit_logic(tx_in, unwrap(tx_out))

\* charm_values(app, ...).find_map(value().ok()): the state an output
\* carries for the app, None when its charm belongs to another app
charm_values(app, token) ==
  IF token.app = app THEN Some(token.state) ELSE None

\* nft_contract_satisfied: the token found among the spell's inputs and
\* outputs; `check!(output_nft.is_some())` before the rules are evaluated.
nft_contract_satisfied(tx_in, tx_out) ==
  IF is_none(tx_out) THEN "MissingOutput"
  ELSE validate_habit_logic(tx_in, unwrap(tx_out))

(***************************************************************************)
(* Bounded inputs                                                          *)
(***************************************************************************)
Owners == {"alice123", "hacker456"}

\* name, description, habit_name and created_at travel together
DisplayCases ==
  { [name |-> "Test Habit", description |-> "Test",
     habit_name |-> "Meditation", created_at |-> Some(0)],
    [name |-> "New Habit", description |-> "Brand new",
     habit_name |-> "Exercise", created_at |-> None] }

\* the display fields of the contract's tests
BaseDisplay == CHOOSE c \in DisplayCases : is_some(c.created_at)

HabitContent(d, owner, total, updated, badges) ==
  [name |-> d.name, description |-> d.description, owner |-> owner,
   habit_name |-> d.habit_name, total_sessions |-> total,
   created_at |-> d.created_at, last_updated |-> updated, badges |-> badges]

SessionCases == {0, 1, 2, 3, U64_MAX - 1, U64_MAX}

PrevTimeCases == {None} \cup {Some(t) : t \in {I64_MIN, 0, 3}}

NextTimeCases == {None} \cup {Some(t) : t \in {I64_MIN, 0, 4, 5, I64_MAX}}

AllLabels == [i \in 1..Len(BadgeIfChain) |-> BadgeIfChain[i][2]]

WrongBadge == "Wrong Badge"

BadgeCases ==
  { << >>,
    << AllLabels[1] >>,
    << AllLabels[2] >>,
    << AllLabels[1], AllLabels[2] >>,
    << AllLabels[2], AllLabels[1] >>,
    << AllLabels[1], WrongBadge >>,
    << WrongBadge >>,
    << BADGE_MILESTONES[1][2] >>,
    AllLabels,
    SubSeq(AllLabels, 1, Len(AllLabels) - 1) }

PrevCases ==
  { HabitContent(d, o, s, t, b) :
      d \in {BaseDisplay},
      o \in Owners, s \in SessionCases, t \in PrevTimeCases,
      b \in {<< >>, << WrongBadge >>} }

OutputCases ==
  { HabitContent(d, o, s, t, b) :
      d \in DisplayCases, o \in Owners, s \in SessionCases,
      t \in NextTimeCases, b \in BadgeCases }

(***************************************************************************)
(* Spec: the validator applied to bounded inputs                           *)
(***************************************************************************)
BadgeIdle ==
  /\ sessions = 0
  /\ contract_badges = << >>
  /\ client_badges = << >>
  /\ badges_computed = FALSE

FlowIdle ==
  /\ flows = << >>
  /\ unspent = << >>
  /\ spent_outputs = {}

ChainIdle ==
  /\ utxo = None
  /\ updates = 0
  /\ genesis_sessions = None
  /\ verdict = "NotCalled"

ValidateIdle ==
  /\ input_nft = None
  /\ output = None
  /\ result = "NotCalled"

ClientIdle ==
  /\ op = "None"
  /\ pc = "Idle"
  /\ network = "regtest"
  /\ now = 0
  /\ nft = None
  /\ funding = None
  /\ spell = None
  /\ prover_calls = 0
  /\ bitcoin_txs = << >>
  /\ signing_info = << >>
  /\ prevouts = << >>
  /\ calls = << >>
  /\ outcome = "Running"
  /\ ledger_txs = {}
  /\ response = << >>
  /\ app_ids = << >>

Init ==
  /\ overflow_checks \in BOOLEAN
  /\ input_nft \in {None} \cup {Some(p) : p \in PrevCases}
  /\ output = None
  /\ result = "NotCalled"
  /\ BadgeIdle
  /\ ChainIdle
  /\ FlowIdle
  /\ ClientIdle

\* One call per behaviour: validate_habit_logic(input_nft, out)
Validate(out) ==
  /\ result = "NotCalled"
  /\ output' = Some(out)
  /\ result' = validate_habit_logic(input_nft, out)
  /\ UNCHANGED << overflow_checks, input_nft, badge_vars, chain_vars,
                  client_vars, flow_vars >>

Next == \E out \in OutputCases : Validate(out)

Spec == Init /\ [][Next]_vars

(***************************************************************************)
(* Claims about validate_habit_logic (checked under Spec)                  *)
(***************************************************************************)
Called == result # "NotCalled"

IsUpdateCall == Called /\ is_some(input_nft)

Prev == unwrap(input_nft)

Proposed == unwrap(output)

OwnerKept == Prev.owner = Proposed.owner

\* the increment the claims speak of, in the integers
IncrementedByOne == Proposed.total_sessions = Prev.total_sessions + 1

BothTimestamps ==
  is_some(Prev.last_updated) /\ is_some(Proposed.last_updated)

\* elapsed time in the integers
Elapsed == unwrap(Proposed.last_updated) - unwrap(Prev.last_updated)

BadgesExact ==
  Proposed.badges = get_badges_for_sessions(Proposed.total_sessions)

\* C1 (as claimed): with the owner unchanged, an update is accepted only if
\* next.total_sessions = previous.total_sessions + 1, and every other
\* relation is rejected as an invalid increment.
C1_ExactIncrement ==
  (IsUpdateCall /\ OwnerKept) =>
     /\ Accepted(result) => IncrementedByOne
     /\ ~IncrementedByOne => result = "InvalidIncrement"

\* C2: an update whose owner differs from the previous state's owner is
\* rejected with the owner-mismatch outcome, whatever else it proposes (in
\* particular when it is a legal successor in every other respect).
C2_OwnerChangeRejected ==
  (IsUpdateCall /\ ~OwnerKept) => result = "OwnerMismatch"

\* C2 witness: previous 2 sessions at time 0, next 3 sessions at time 5 with
\* the two badges earned by then, only the owner differs; refused for it.
C2_Witness ==
  /\ IsUpdateCall
  /\ Prev.owner = "alice123" /\ Proposed.owner = "hacker456"
  /\ Prev.total_sessions = 2 /\ Proposed.total_sessions = 3
  /\ Prev.last_updated = Some(0) /\ Proposed.last_updated = Some(5)
  /\ Proposed.badges = << AllLabels[1], AllLabels[2] >>
  /\ result = "OwnerMismatch"

C4_TimeGate ==
  (IsUpdateCall /\ OwnerKept /\ IncrementedByOne /\ BadgesExact) =>
     /\ BothTimestamps =>
          /\ Accepted(result) <=> Elapsed >= MIN_UPDATE_INTERVAL_SECS
          /\ Elapsed < MIN_UPDATE_INTERVAL_SECS => result = "TooSoon"
     /\ is_none(Prev.last_updated) => Accepted(result)

\* C5: with no previous state, every state with total_sessions = 0 and no
\* badges is accepted, whatever its other fields hold.
C5_GenesisAccepted ==
  (Called /\ is_none(input_nft)
     /\ Proposed.total_sessions = 0 /\ Proposed.badges = << >>)
  => Accepted(result)

\* C5 witness: a genesis state that already carries a last_updated stamp and
\* no created_at, owned by the second owner, is accepted.
C5_Witness ==
  /\ Called /\ is_none(input_nft)
  /\ Proposed.total_sessions = 0 /\ Proposed.badges = << >>
  /\ Proposed.owner = "hacker456"
  /\ is_none(Proposed.created_at)
  /\ Proposed.last_updated = Some(I64_MAX)
  /\ result = "Creation"

\* The rules as the claims state them, in the integers
OwnerRuleBroken == ~OwnerKept

IncrementRuleBroken == ~IncrementedByOne

TimeRuleBroken == BothTimestamps /\ Elapsed < MIN_UPDATE_INTERVAL_SECS

BadgeRuleBroken == ~BadgesExact

RulesBroken ==
  {r \in {"OwnerMismatch", "InvalidIncrement", "TooSoon", "BadgeMismatch"} :
     \/ r = "OwnerMismatch" /\ OwnerRuleBroken
     \/ r = "InvalidIncrement" /\ IncrementRuleBroken
     \/ r = "TooSoon" /\ TimeRuleBroken
     \/ r = "BadgeMismatch" /\ BadgeRuleBroken}

FirstRuleBroken ==
  IF OwnerRuleBroken THEN "OwnerMismatch"
  ELSE IF IncrementRuleBroken THEN "InvalidIncrement"
  ELSE IF TimeRuleBroken THEN "TooSoon"
  ELSE "BadgeMismatch"

\* C8 (as claimed): an update that breaks more than one rule is refused for
\* the first broken rule in the order owner, increment, time gate, badges.
C8_FirstFailureWins ==
  (IsUpdateCall /\ Cardinality(RulesBroken) >= 2) => result = FirstRuleBroken

(***************************************************************************)
(* SpecBadges: both badge functions applied to every session count         *)
(***************************************************************************)
InitBadges ==
  /\ overflow_checks = FALSE
  /\ ValidateIdle
  /\ sessions \in U64
  /\ contract_badges = << >>
  /\ client_badges = << >>
  /\ badges_computed = FALSE
  /\ ChainIdle
  /\ FlowIdle
  /\ ClientIdle

GetBadges ==
  /\ ~badges_computed
  /\ contract_badges' = get_badges_for_sessions(sessions)
  /\ client_badges' = nft_get_badges_for_sessions(sessions)
  /\ badges_computed' = TRUE
  /\ UNCHANGED << overflow_checks, validate_vars, sessions, chain_vars,
                  client_vars, flow_vars >>

NextBadges == GetBadges

SpecBadges == InitBadges /\ [][NextBadges]_vars

ClientLabels == [i \in 1..Len(BADGE_MILESTONES) |-> BADGE_MILESTONES[i][2]]

\* number of thresholds of a schedule that are <= n
ThresholdsReached(schedule, n) ==
  Cardinality({i \in 1..Len(schedule) : schedule[i][1] <= n})

IsPrefix(s, t) == Len(s) <= Len(t) /\ SubSeq(t, 1, Len(s)) = s

\* C9: for every n, each of the two functions returns the labels of its
\* schedule whose threshold is <= n, in schedule order: the first k labels,
\* k being the number of thresholds <= n; so none at 0, 6 at 22, 11 at 44,
\* 16 at 66, 17 at 100, 19 at 365 and all 21 from 1000 on.
C9_BadgesAreReachedLabels ==
  badges_computed =>
     /\ contract_badges
          = SubSeq(AllLabels, 1, ThresholdsReached(BadgeIfChain, sessions))
     /\ client_badges
          = SubSeq(ClientLabels, 1, ThresholdsReached(BADGE_MILESTONES, sessions))
     /\ \A pair \in { <<0, 0>>, <<22, 6>>, <<44, 11>>, <<66, 16>>,
                      <<100, 17>>, <<365, 19>> } :
          sessions = pair[1] =>
             /\ Len(contract_badges) = pair[2]
             /\ Len(client_badges) = pair[2]
     /\ sessions >= 1000 =>
          /\ Len(contract_badges) = 21
          /\ Len(client_badges) = 21

\* C9 witness: at 365 sessions both functions have returned 19 labels, the
\* last of them the label of threshold 365.
C9_Witness ==
  /\ badges_computed
  /\ sessions = 365
  /\ Len(contract_badges) = 19 /\ Len(client_badges) = 19
  /\ contract_badges[19] = BadgeIfChain[19][2]
  /\ client_badges[19] = BADGE_MILESTONES[19][2]

\* C10: for all n1 < n2, get_badges_for_sessions(n1) is a prefix of
\* get_badges_for_sessions(n2), for the contract's function and the client's.
C10_BadgesMonotone ==
  badges_computed =>
     \A n1 \in 0..(sessions - 1) :
        /\ IsPrefix(get_badges_for_sessions(n1), contract_badges)
        /\ IsPrefix(nft_get_badges_for_sessions(n1), client_badges)

\* C10 witness: the 7 badges of 23 sessions extend the 6 badges of 22.
C10_Witness ==
  /\ badges_computed
  /\ sessions = 23
  /\ Len(contract_badges) = 7
  /\ Len(get_badges_for_sessions(22)) = 6
  /\ IsPrefix(get_badges_for_sessions(22), contract_badges)
  /\ IsPrefix(nft_get_badges_for_sessions(22), client_badges)

\* C11 (as claimed): for every session count the client's
\* get_badges_for_sessions (over BADGE_MILESTONES) and the contract's
\* get_badges_for_sessions return the same sequence: same length, same
\* label strings, same order.
C11_BadgesIdentical ==
  badges_computed => client_badges = contract_badges

(***************************************************************************)
(* SpecChain: one token on the ledger.  A spell is accepted by the ledger  *)
(* only if nft_contract_satisfied holds of it; an accepted spell replaces  *)
(* the token's unspent state by the spell's output.                        *)
(***************************************************************************)
MaxUpdates == U64_MAX + 2

ChainTimeCases ==
  {None} \cup {Some(t) : t \in {I64_MIN, 0, I64_MAX - 5, 5, I64_MAX}}

\* token states a genesis spell may carry
GenesisCases ==
  { HabitContent(BaseDisplay, o, s, t, b) :
      o \in Owners, s \in {0, U64_MAX}, t \in {None, Some(0)},
      b \in {<< >>, << WrongBadge >>} }

\* the badges held plus the next label of the contract's schedule
WithNextBadge(badges) ==
  IF Len(badges) < Len(AllLabels)
  THEN Append(badges, AllLabels[Len(badges) + 1])
  ELSE badges

\* token states an update spell spending `cur` may carry: the counter
\* advanced by one with any timestamp and the badges kept, extended by one
\* or dropped; the counter kept or advanced by two; another owner
UpdateCases(cur) ==
  { HabitContent(BaseDisplay, cur.owner,
                 WrappingAddU64(cur.total_sessions, 1), t, b) :
      t \in ChainTimeCases,
      b \in { cur.badges, WithNextBadge(cur.badges), << >> } }
  \cup
  { HabitContent(BaseDisplay, o, s, Some(5), b) :
      o \in {cur.owner},
      s \in { cur.total_sessions, WrappingAddU64(cur.total_sessions, 2) },
      b \in { cur.badges, WithNextBadge(cur.badges) } }
  \cup
  { HabitContent(BaseDisplay, o, WrappingAddU64(cur.total_sessions, 1),
                 Some(5), WithNextBadge(cur.badges)) :
      o \in Owners \ {cur.owner} }

\* the outputs of the spells that may be submitted in the current state
GenesisOutputs == {None} \cup {Some(n) : n \in GenesisCases}

UpdateOutputs ==
  IF is_some(utxo)
  THEN {None} \cup {Some(n) : n \in UpdateCases(unwrap(utxo))}
  ELSE {}

InitChain ==
  /\ overflow_checks \in BOOLEAN
  /\ ValidateIdle
  /\ BadgeIdle
  /\ ChainIdle
  /\ FlowIdle
  /\ ClientIdle

\* a genesis spell: no token among the inputs
Create(tx_out) ==
  /\ is_none(utxo)
  /\ LET v == nft_contract_satisfied(None, tx_out) IN
       /\ verdict' = v
       /\ IF Accepted(v)
          THEN /\ utxo' = tx_out
               /\ genesis_sessions' = Some(unwrap(tx_out).total_sessions)
          ELSE UNCHANGED << utxo, genesis_sessions >>
  /\ UNCHANGED << overflow_checks, validate_vars, badge_vars, updates,
                  client_vars, flow_vars >>

\* an update spell: spends the token's unspent state
Update(tx_out) ==
  /\ is_some(utxo)
  /\ updates < MaxUpdates
  /\ LET v == nft_contract_satisfied(utxo, tx_out) IN
       /\ verdict' = v
       /\ IF Accepted(v)
          THEN utxo' = tx_out /\ updates' = updates + 1
          ELSE UNCHANGED << utxo, updates >>
  /\ UNCHANGED << overflow_checks, validate_vars, badge_vars,
                  genesis_sessions, client_vars, flow_vars >>

NextChain ==
  \/ \E tx_out \in GenesisOutputs : Create(tx_out)
  \/ \E tx_out \in UpdateOutputs : Update(tx_out)

SpecChain == InitChain /\ [][NextChain]_vars

Token == unwrap(utxo)

\* C6 (as claimed): every token state on the ledger, genesis or successor,
\* carries exactly the badges get_badges_for_sessions derives from its
\* total_sessions.
C6_LedgerBadgesDerived ==
  is_some(utxo) => Token.badges = get_badges_for_sessions(Token.total_sessions)

\* C7 (as claimed): in a chain that starts at a genesis state with
\* total_sessions = 0, the state after k accepted updates has
\* total_sessions = k, also past the maximum of the counter's width.
C7_CounterCountsUpdates ==
  (is_some(utxo) /\ genesis_sessions = Some(0)) => Token.total_sessions = updates

\* C12 (as claimed): in every chain of accepted transitions every
\* non-genesis token state carries a last_updated timestamp; no update whose
\* next state omits last_updated is accepted.
C12_SuccessorsStamped ==
  (is_some(utxo) /\ updates >= 1) => is_some(Token.last_updated)

(***************************************************************************)
(* SpecClient: one run of a client operation (src/nft.rs).  The wallet,    *)
(* the prover and the ledger are external: each of their calls is a step   *)
(* whose outcome is chosen from the outcomes the call can have.            *)
(***************************************************************************)
NFT_AMOUNT_SATS == 1000

MIN_FUNDING_SATS == 2000

\* hex::encode: two lower-case hexadecimal digits per byte
HexDigits ==
  << "0", "1", "2", "3", "4", "5", "6", "7",
     "8", "9", "a", "b", "c", "d", "e", "f" >>

hex_encode(bytes) ==
  [i \in 1..(2 * Len(bytes)) |->
     IF i % 2 = 1
     THEN HexDigits[(bytes[(i + 1) \div 2] \div 16) + 1]
     ELSE HexDigits[(bytes[i \div 2] % 16) + 1]]

\* hex::decode: None for an odd length or a character that is no digit
DigitValue(c) == CHOOSE v \in 0..15 : HexDigits[v + 1] = c

hex_decode(chars) ==
  IF Len(chars) % 2 # 0
       \/ \E i \in 1..Len(chars) :
            \A v \in 0..15 : HexDigits[v + 1] # chars[i]
  THEN None
  ELSE Some([i \in 1..(Len(chars) \div 2) |->
               16 * DigitValue(chars[2 * i - 1]) + DigitValue(chars[2 * i])])

\* script_pubkey bytes of the outputs that occur in a run
WalletScript == << 0, 20, 171 >>

NftScript == << 81, 32, 205 >>

CommitScript == << 81, 32, 18 >>

\* an outpoint "txid:vout", kept as the pair split_once(':') yields
Outpoint(txid, vout) == << txid, vout >>

\* the transactions that occur; a transaction's identifier is written as 64
\* hexadecimal digits, here 64 times the digit of its place in this list
TxidBytes ==
  << "fund", "nft", "other", "commit", "spell", "nft1", "nft2", "commit1",
     "commit2", "spell1", "spell2" >>

TxidByte(txid) == CHOOSE b \in 1..Len(TxidBytes) : TxidBytes[b] = txid

\* Txid's Display and u32's Display, as format!("{}:{}", txid, vout) uses
\* them
DecimalDigits == << "0", "1", "2", "3", "4", "5", "6", "7", "8", "9" >>

RECURSIVE format_u32(_)
format_u32(n) ==
  IF n < 10 THEN << DecimalDigits[n + 1] >>
  ELSE format_u32(n \div 10) \o << DecimalDigits[(n % 10) + 1] >>

format_outpoint(outpoint) ==
  [i \in 1..64 |-> HexDigits[TxidByte(outpoint[1]) + 1]]
    \o << ":" >> \o format_u32(outpoint[2])

\* str::split_once(':'): the text before and after the first ':', None if
\* there is none
split_once(chars) ==
  IF \A i \in 1..Len(chars) : chars[i] # ":" THEN None
  ELSE LET at == CHOOSE i \in 1..Len(chars) :
                   chars[i] = ":" /\ \A j \in 1..(i - 1) : chars[j] # ":"
       IN  Some(<< SubSeq(chars, 1, at - 1),
                   SubSeq(chars, at + 1, Len(chars)) >>)

\* str::split(':'), element 0: the text before the first ':', or all of it
split_first(chars) ==
  IF is_none(split_once(chars)) THEN chars ELSE unwrap(split_once(chars))[1]

\* Txid::from_str: 64 hexadecimal digits, anything else is an error; a
\* well-formed identifier of no listed transaction is "unknown"
txid_from_str(chars) ==
  IF Len(chars) # 64 \/ is_none(hex_decode(chars)) THEN None
  ELSE IF /\ \A i \in 1..Len(chars) : chars[i] = chars[1]
          /\ DigitValue(chars[1]) \in 1..Len(TxidBytes)
  THEN Some(TxidBytes[DigitValue(chars[1])])
  ELSE Some("unknown")

\* str::parse::<u32>: decimal digits only
RECURSIVE parse_u32(_)
parse_u32(chars) ==
  IF chars = << >> \/ \E i \in 1..Len(chars) :
                        \A d \in 1..10 : DecimalDigits[d] # chars[i]
  THEN None
  ELSE LET last == (CHOOSE d \in 1..10 :
                      DecimalDigits[d] = chars[Len(chars)]) - 1
           front == SubSeq(chars, 1, Len(chars) - 1)
       IN  IF front = << >> THEN Some(last)
           ELSE Some(10 * unwrap(parse_u32(front)) + last)

\* the outpoint a "txid:vout" text names, as the prover reads a spell's
\* input; None when the text names none
parse_outpoint(chars) ==
  LET parts == split_once(chars) IN
    IF is_none(parts) THEN None
    ELSE LET txid == txid_from_str(unwrap(parts)[1])
             vout == parse_u32(unwrap(parts)[2])
         IN  IF is_none(txid) \/ is_none(vout) THEN None
             ELSE Some(Outpoint(unwrap(txid), unwrap(vout)))

\* an unspent output as the ledger holds it
Utxo(id, amount, script, address) ==
  [id |-> id, amount |-> amount, script |-> script, address |-> address]

\* the wallet's list_unspent answers
WalletCases ==
  { << Utxo(Outpoint("fund", 0), 5000, WalletScript, Some("alice123")) >>,
    << Utxo(Outpoint("nft", 0), NFT_AMOUNT_SATS, NftScript, Some("alice123")),
       Utxo(Outpoint("fund", 1), MIN_FUNDING_SATS - 1, WalletScript,
            Some("hacker456")) >>,
    << Utxo(Outpoint("fund", 2), MIN_FUNDING_SATS, WalletScript,
            Some("alice123")) >>,
    << Utxo(Outpoint("nft", 0), 5000, NftScript, Some("alice123")),
       Utxo(Outpoint("other", 0), NFT_AMOUNT_SATS, WalletScript,
            Some("alice123")) >>,
    << Utxo(Outpoint("fund", 3), 5000, WalletScript, None) >> }

\* (funding_utxo, funding_value, user_address) an unsigned builder is given
FundingCases ==
  { Utxo(Outpoint("fund", 0), v, WalletScript, Some(a)) :
      v \in {0, MIN_FUNDING_SATS - 1, MIN_FUNDING_SATS, 5000}, a \in Owners }

HabitNames == {"Meditation", "Exercise"}

NowCases == {1, MIN_UPDATE_INTERVAL_SECS}

\* the token output an update spends, as the ledger holds it
NftOutput(id, app, state, script, amount) ==
  [utxo_id |-> id, app |-> app, state |-> state, script |-> script,
   amount |-> amount]

\* load_contract: the verification key of the contract binary
VerificationKey == "vk"

\* Sha256 of a text: a value that names its input (no two texts collide)
sha256(text) == << "sha256", text >>

\* generate_app_id, and the same lines inside create_nft_unsigned: the app
\* id is made of the clock's second `t` and the verification key
generate_app_id(vk, t) == << "n", sha256(<< "habit_tracker_", t >>), vk >>

\* the clock second at which the token an update spends was created
GenesisSecond == 1

NftCases ==
  { NftOutput(Outpoint("nft", 0),
              generate_app_id(VerificationKey, GenesisSecond),
              HabitContent(d, o, s, t, get_badges_for_sessions(s)),
              NftScript, NFT_AMOUNT_SATS) :
      d \in DisplayCases, o \in Owners, s \in {0, 2, U64_MAX},
      t \in {None, Some(0)} }

\* a search for funding that leaves the excluded outpoint in
MutantFundingNoExclusion(utxos, exclude_utxo) ==
  LET found == SelectSeq(utxos, LAMBDA u : u.amount # 1000)
  IN  IF found # << >> THEN Some(found[1]) ELSE None

\* get_funding_utxo: the first wallet output that is not 1000 sats and not
\* the excluded outpoint
get_funding_utxo(utxos, exclude_utxo) ==
  LET Suitable(u) ==
        LET is_nft == u.amount = 1000
            utxo_id == format_outpoint(u.id)
            is_excluded == is_some(exclude_utxo) /\ utxo_id = unwrap(exclude_utxo)
        IN  ~is_nft /\ ~is_excluded
      found == SelectSeq(utxos, Suitable)
  IN  IF found # << >> THEN Some(found[1]) ELSE None

\* a JSON value of the `charms tx show-spell --json` response: a string or a
\* number
JStr(s) == [str |-> Some(s), num |-> None]

JNum(n) == [str |-> None, num |-> Some(n)]

\* `.get(key).and_then(|v| v.as_str())`; an absent key is None
as_str(field) == IF is_none(field) THEN None ELSE unwrap(field).str

\* `.get(key).and_then(|v| v.as_u64())`: a number that is not negative
as_u64(field) ==
  IF is_none(field) \/ is_none(unwrap(field).num) THEN None
  ELSE IF unwrap(unwrap(field).num) < 0 THEN None
  ELSE unwrap(field).num

\* the charm "$0000" of output 0 as show-spell prints a token state
ShowSpell(state) ==
  [habit_name |-> Some(JStr(state.habit_name)),
   total_sessions |-> Some(JNum(state.total_sessions)),
   owner |-> Some(JStr(state.owner))]

\* the responses extract_nft_metadata may be given for a token: the state as
\* it is; without "habit_name"; without "total_sessions"; with the counter
\* as a string; without "owner"
ShowSpellCases(state) ==
  LET full == ShowSpell(state) IN
    { full,
      [full EXCEPT !.habit_name = None],
      [full EXCEPT !.total_sessions = None],
      [full EXCEPT !.total_sessions = Some(JStr("many"))],
      [full EXCEPT !.owner = None] }

\* extract_nft_metadata: (habit_name, sessions, owner) read from the charm;
\* `unwrap_or("Meditation")`, `unwrap_or(0)`, and an error for no owner
extract_nft_metadata(charms) ==
  LET name_read == as_str(charms.habit_name)
      count_read == as_u64(charms.total_sessions)
      owner_read == as_str(charms.owner)
  IN  IF is_none(owner_read) THEN [err |-> "No owner found in NFT"]
      ELSE [err |-> "None",
            habit_name |-> IF is_some(name_read) THEN unwrap(name_read)
                           ELSE "Meditation",
            total_sessions |-> IF is_some(count_read) THEN unwrap(count_read)
                               ELSE 0,
            owner |-> unwrap(owner_read)]

\* "name" and "description" of every spell the client writes
TokenName == "U+F8FF U+00FC U+00F3 U+00B0 U+00D4 U+220F U+00E8 Habit Tracker"

ClientDisplay(habit_name, created) ==
  [name |-> TokenName,
   description |-> << "Tracking habit: ", habit_name >>,
   habit_name |-> habit_name, created_at |-> created]

\* a spell: the charms of its inputs and of its outputs, as the contract
\* deserialises them (an absent key is None, absent badges are empty)
SpellIn(utxo_id, charm) == [utxo_id |-> utxo_id, charm |-> charm]

SpellOut(address, charm) ==
  [address |-> address, charm |-> charm, sats |-> NFT_AMOUNT_SATS]

\* "apps": {"$00": app_id}, "ins", "outs"
Spell(app, ins, outs) == [app |-> app, ins |-> ins, outs |-> outs]

\* create_nft: the spell of lines 450-468 (no "badges", no "last_updated")
create_spell(addr, habit_name, t) ==
  Spell(generate_app_id(VerificationKey, t), << >>,
        << SpellOut(addr,
             HabitContent(ClientDisplay(habit_name, Some(t)), addr, 0, None,
                          << >>)) >>)

\* create_nft_unsigned: the spell of lines 1045-1064
create_unsigned_spell(addr, habit_name, t) ==
  Spell(generate_app_id(VerificationKey, t), << >>,
        << SpellOut(addr,
             HabitContent(ClientDisplay(habit_name, Some(t)), addr, 0, None,
                          nft_get_badges_for_sessions(0))) >>)

\* update_nft / update_nft_unsigned: `current_sessions + 1`
next_sessions(current_sessions) == WrappingAddU64(current_sessions, 1)

\* update_nft / update_nft_unsigned: the spell of lines 699-730 / 839-870
update_spell(nft_utxo, addr, habit_name, current_sessions, t) ==
  Spell(generate_app_id(VerificationKey, t),
        << SpellIn(nft_utxo,
             HabitContent(ClientDisplay(habit_name, None), addr,
                          current_sessions, None,
                          nft_get_badges_for_sessions(current_sessions))) >>,
        << SpellOut(addr,
             HabitContent(ClientDisplay(habit_name, None), addr,
                          next_sessions(current_sessions), Some(t),
                          nft_get_badges_for_sessions(
                            next_sessions(current_sessions)))) >>)

\* the transactions a successful prover run returns: the commit transaction
\* spends the funding output, the spell transaction spends the spell's
\* inputs in order and then output 0 of the commit transaction
TxOut(script, value) == [script |-> script, value |-> value]

Tx(txid, ins, outs) == [txid |-> txid, ins |-> ins, outs |-> outs]

CommitValueCases == {600, 1700}

ProverTxs(f, sp, commit_value) ==
  << Tx("commit", << f.id >>, << TxOut(CommitScript, commit_value) >>),
     Tx("spell",
        [i \in 1..Len(sp.ins) |-> sp.ins[i].utxo_id]
          \o << Outpoint("commit", 0) >>,
        [i \in 1..Len(sp.outs) |-> TxOut(NftScript, sp.outs[i].sats)]) >>

\* compute_txid: a function of the transaction's inputs and outputs; the
\* two transactions of a run differ in the script of output 0
compute_txid(ins, outs) ==
  IF outs # << >> /\ outs[1].script = CommitScript THEN "commit" ELSE "spell"

\* bitcoin::consensus::serialize: version, input count, the inputs
\* (transaction byte, vout), output count, the outputs (value in two bytes,
\* script length, script)
RECURSIVE Concat(_)
Concat(ss) == IF ss = << >> THEN << >> ELSE Head(ss) \o Concat(Tail(ss))

serialize(tx) ==
  << 2, Len(tx.ins) >>
    \o Concat([i \in 1..Len(tx.ins) |->
                 << TxidByte(tx.ins[i][1]), tx.ins[i][2] >>])
    \o << Len(tx.outs) >>
    \o Concat([i \in 1..Len(tx.outs) |->
                 << tx.outs[i].value \div 256, tx.outs[i].value % 256,
                    Len(tx.outs[i].script) >> \o tx.outs[i].script])

\* bitcoin::consensus::deserialize: None unless the bytes are exactly one
\* well-formed transaction
RECURSIVE ParseOuts(_, _, _)
ParseOuts(bytes, pos, count) ==
  IF count = 0
  THEN IF pos = Len(bytes) + 1 THEN Some(<< >>) ELSE None
  ELSE IF pos + 2 > Len(bytes) \/ pos + 2 + bytes[pos + 2] > Len(bytes)
  THEN None
  ELSE LET len == bytes[pos + 2]
           out == TxOut([i \in 1..len |-> bytes[pos + 2 + i]],
                        256 * bytes[pos] + bytes[pos + 1])
           rest == ParseOuts(bytes, pos + 3 + len, count - 1)
       IN  IF is_none(rest) THEN None ELSE Some(<< out >> \o unwrap(rest))

deserialize(bytes) ==
  IF Len(bytes) < 2 \/ bytes[1] # 2 \/ Len(bytes) < 3 + 2 * bytes[2]
  THEN None
  ELSE LET n == bytes[2]
           known == \A i \in 1..n : bytes[1 + 2 * i] \in 1..Len(TxidBytes)
           ins == [i \in 1..n |->
                     Outpoint(TxidBytes[bytes[1 + 2 * i]], bytes[2 + 2 * i])]
           outs == ParseOuts(bytes, 4 + 2 * n, bytes[3 + 2 * n])
       IN  IF ~known \/ is_none(outs) THEN None
           ELSE Some(Tx(compute_txid(ins, unwrap(outs)), ins, unwrap(outs)))

\* the signing plans
SigningInputInfo(tx_index, input_index, prev_script_hex, amount_sats) ==
  [tx_index |-> tx_index, input_index |-> input_index,
   prev_script_hex |-> prev_script_hex, amount_sats |-> amount_sats]

MutantCreateSigningInfoSpellOnly(funding_value, commit_tx) ==
  << SigningInputInfo(1, 0, hex_encode(commit_tx.outs[1].script),
                      commit_tx.outs[1].value) >>

\* create_nft_unsigned, lines 1095-1110
create_signing_info(funding_value, commit_tx) ==
  << SigningInputInfo(0, 0, << >>, funding_value),
     SigningInputInfo(1, 0, hex_encode(commit_tx.outs[1].script),
                      commit_tx.outs[1].value) >>

\* update_nft_unsigned, lines 902-925
update_signing_info(funding_value, commit_tx) ==
  << SigningInputInfo(0, 0, << >>, funding_value),
     SigningInputInfo(1, 0, << >>, 1000),
     SigningInputInfo(1, 1, hex_encode(commit_tx.outs[1].script),
                      commit_tx.outs[1].value) >>

\* prevouts handed to sign_raw_transaction_with_wallet with the spell tx
SignRawTransactionInput(txid, vout, script_pub_key, amount) ==
  [txid |-> txid, vout |-> vout, script_pub_key |-> script_pub_key,
   amount |-> amount]

commit_prevout(commit_tx) ==
  SignRawTransactionInput(commit_tx.txid, 0, commit_tx.outs[1].script,
                          commit_tx.outs[1].value)

nft_prevout(token) ==
  SignRawTransactionInput(token.utxo_id[1], token.utxo_id[2], token.script,
                          NFT_AMOUNT_SATS)

IsUnsignedOp(o) == o \in {"create_nft_unsigned", "update_nft_unsigned"}

IsUpdateOp(o) == o \in {"update_nft", "update_nft_unsigned"}

InitClient ==
  /\ overflow_checks \in BOOLEAN
  /\ ValidateIdle
  /\ BadgeIdle
  /\ ChainIdle
  /\ FlowIdle
  /\ op = "None"
  /\ pc = "Idle"
  /\ network \in {"regtest", "main"}
  /\ now = 0
  /\ nft = None
  /\ funding = None
  /\ spell = None
  /\ prover_calls = 0
  /\ bitcoin_txs = << >>
  /\ signing_info = << >>
  /\ prevouts = << >>
  /\ calls = << >>
  /\ outcome = "Running"
  /\ ledger_txs = {}
  /\ response = << >>
  /\ app_ids = << >>

\* what no builder step touches
BuilderFrame ==
  UNCHANGED << overflow_checks, validate_vars, badge_vars, chain_vars,
               flow_vars,
               network, bitcoin_txs, signing_info, prevouts, calls,
               ledger_txs, response >>

\* an operation returns an error before the prover is called
Refuse(f, err) ==
  /\ funding' = f
  /\ spell' = None
  /\ prover_calls' = prover_calls
  /\ pc' = "Failed"
  /\ outcome' = err
  /\ app_ids' = app_ids

\* an operation hands its spell to prove_with_cli; the app id of a genesis
\* spell (no inputs) is one more id given out
Prove(f, sp) ==
  /\ funding' = f
  /\ spell' = Some(sp)
  /\ prover_calls' = prover_calls + 1
  /\ pc' = "Proving"
  /\ outcome' = "Running"
  /\ app_ids' = IF sp.ins = << >> THEN Append(app_ids, sp.app) ELSE app_ids

\* create_nft up to its prove_with_cli call
create_nft(utxos, habit_name, t) ==
  /\ pc = "Idle"
  /\ op' = "create_nft" /\ now' = t /\ nft' = None
  /\ LET f == get_funding_utxo(utxos, None) IN
       IF is_none(f) THEN Refuse(None, "NoFundingUtxo")
       ELSE IF is_none(unwrap(f).address) THEN Refuse(None, "NoAddress")
       ELSE Prove(f, create_spell(unwrap(unwrap(f).address), habit_name, t))
  /\ BuilderFrame

\* create_nft_unsigned up to its prove_with_cli call
create_nft_unsigned(f, habit_name, t) ==
  /\ pc = "Idle"
  /\ op' = "create_nft_unsigned" /\ now' = t /\ nft' = None
  /\ LET min_required == 2000 IN
       IF f.amount < min_required THEN Refuse(Some(f), "InsufficientFunds")
       ELSE Prove(Some(f),
                  create_unsigned_spell(unwrap(f.address), habit_name, t))
  /\ BuilderFrame

\* the identifiers a caller passes as `nft_utxo` for a token: the token's
\* outpoint as text; that text without ":vout"; with a vout that is no
\* number; and two texts shorter than the prefixes the functions print
NftUtxoCases(token) ==
  LET id == format_outpoint(token.utxo_id) IN
    { id, SubSeq(id, 1, 64), SubSeq(id, 1, 65) \o << "x" >>,
      SubSeq(id, 1, 15), << "a", "b", ":", "0" >> }

\* get_raw_transaction_hex(Txid::from_str(txid)?): the token the ledger
\* holds in that transaction, or the error returned
TokenAt(token, txid) ==
  IF is_none(txid_from_str(txid)) THEN [err |-> "InvalidTxid"]
  ELSE IF unwrap(txid_from_str(txid)) # token.utxo_id[1]
  THEN [err |-> "RpcError"]
  ELSE [err |-> "None"]

\* the "utxo_id" of the spell's input as the prover reads it
SpellUtxoId(nft_utxo) ==
  IF is_none(parse_outpoint(nft_utxo)) THEN None
  ELSE unwrap(parse_outpoint(nft_utxo))

\* update_nft up to its prove_with_cli call
update_nft(utxos, token, shown, nft_utxo, t) ==
  /\ pc = "Idle"
  /\ op' = "update_nft" /\ now' = t
  /\ LET f == get_funding_utxo(utxos, Some(nft_utxo))
         parts == split_once(nft_utxo)
         prev_txid == unwrap(parts)[1]
         meta == extract_nft_metadata(shown)
     IN
       IF Len(nft_utxo) < 20
       THEN nft' = None /\ Refuse(None, "SlicePanic")
       ELSE IF is_none(f)
       THEN nft' = None /\ Refuse(None, "NoFundingUtxo")
       ELSE IF is_none(unwrap(f).address)
       THEN nft' = None /\ Refuse(None, "NoAddress")
       ELSE IF is_none(parts)
       THEN nft' = None /\ Refuse(f, "Invalid UTXO format")
       ELSE IF TokenAt(token, prev_txid).err # "None"
       THEN nft' = None /\ Refuse(f, TokenAt(token, prev_txid).err)
       ELSE IF meta.err # "None"
       THEN nft' = None /\ Refuse(f, meta.err)
       ELSE /\ nft' = Some(token)
            /\ IF overflow_checks /\ AddU64Overflows(meta.total_sessions, 1)
               THEN Refuse(f, "Panic")
               ELSE Prove(f, update_spell(SpellUtxoId(nft_utxo),
                                          unwrap(unwrap(f).address),
                                          meta.habit_name, meta.total_sessions, t))
  /\ BuilderFrame

\* update_nft_unsigned up to its prove_with_cli call
update_nft_unsigned(token, shown, nft_utxo, f, t) ==
  /\ pc = "Idle"
  /\ op' = "update_nft_unsigned" /\ now' = t
  /\ LET prev_txid == split_first(nft_utxo)
         meta == extract_nft_metadata(shown)
     IN
       IF f.amount < MIN_FUNDING_SATS
       THEN nft' = None /\ Refuse(Some(f), "InsufficientFunds")
       ELSE IF TokenAt(token, prev_txid).err # "None"
       THEN nft' = None /\ Refuse(Some(f), TokenAt(token, prev_txid).err)
       ELSE IF meta.err # "None"
       THEN nft' = None /\ Refuse(Some(f), meta.err)
       ELSE /\ nft' = Some(token)
            /\ IF overflow_checks /\ AddU64Overflows(meta.total_sessions, 1)
               THEN Refuse(Some(f), "Panic")
               ELSE Prove(Some(f),
                          update_spell(SpellUtxoId(nft_utxo),
                                       unwrap(f.address),
                                       meta.habit_name, meta.total_sessions, t))
  /\ BuilderFrame

\* view_nft; `log_info` says whether the run logs at level info, which
\* decides whether the argument of log::info! is evaluated
view_nft(token, shown, nft_utxo, log_info) ==
  /\ pc = "Idle"
  /\ op' = "view_nft"
  /\ LET parts == split_once(nft_utxo) IN
       IF log_info /\ Len(nft_utxo) < 12
       THEN nft' = None /\ pc' = "Failed" /\ outcome' = "SlicePanic"
       ELSE IF is_none(parts)
       THEN nft' = None /\ pc' = "Failed" /\ outcome' = "Invalid UTXO format"
       ELSE IF TokenAt(token, unwrap(parts)[1]).err # "None"
       THEN /\ nft' = None /\ pc' = "Failed"
            /\ outcome' = TokenAt(token, unwrap(parts)[1]).err
       ELSE IF extract_nft_metadata(shown).err # "None"
       THEN /\ nft' = None /\ pc' = "Failed"
            /\ outcome' = extract_nft_metadata(shown).err
       ELSE nft' = Some(token) /\ pc' = "Viewed" /\ outcome' = "Ok"
  /\ UNCHANGED << now, funding, spell, prover_calls, app_ids >>
  /\ BuilderFrame

\* prove_with_cli returns: an error, or the commit and spell transactions.
\* An unsigned builder then returns its signing plan; create_nft and
\* update_nft go on to settlement.
ProverOutcomes == {"Failed", "Proved"}

\* how many Bitcoin transactions a prover response holds
ProverTxCounts == {0, 1, 2}

\* the prover cannot prove a spell whose input names no outpoint
ProverOutcomesFor(sp) ==
  IF \E i \in 1..Len(sp.ins) : sp.ins[i].utxo_id = None THEN {"Failed"}
  ELSE ProverOutcomes

\* a builder that goes on to settlement with what the prover left behind
MutantProverFailureIgnored(res, commit_value, count) ==
  /\ pc = "Proving"
  /\ res \in ProverOutcomesFor(unwrap(spell))
  /\ bitcoin_txs' = SubSeq(ProverTxs(unwrap(funding), unwrap(spell),
                                     commit_value), 1, count)
  /\ pc' = "SignCommit"
  /\ outcome' = IF res = "Failed" THEN "ProverFailed" ELSE outcome
  /\ UNCHANGED << overflow_checks, validate_vars, badge_vars, chain_vars,
                  flow_vars, op, network, now, nft, funding, spell, prover_calls,
                  prevouts, calls, ledger_txs, response, signing_info,
                  app_ids >>

ProverReturns(res, commit_value, count) ==
  /\ pc = "Proving"
  /\ res \in ProverOutcomesFor(unwrap(spell))
  /\ IF res = "Failed"
     THEN /\ pc' = "Failed"
          /\ outcome' = "ProverFailed"
          /\ UNCHANGED << bitcoin_txs, signing_info >>
     ELSE LET txs == SubSeq(ProverTxs(unwrap(funding), unwrap(spell),
                                      commit_value), 1, count)
          IN
          /\ bitcoin_txs' = txs
          /\ IF IsUnsignedOp(op) /\ count < 2
             THEN /\ pc' = "Failed"
                  /\ outcome' = "IndexPanic"
                  /\ UNCHANGED signing_info
             ELSE IF IsUnsignedOp(op)
             THEN /\ signing_info' =
                       IF IsUpdateOp(op)
                       THEN update_signing_info(unwrap(funding).amount, txs[1])
                       ELSE create_signing_info(unwrap(funding).amount, txs[1])
                  /\ pc' = "Returned"
                  /\ outcome' = "Ok"
             ELSE /\ pc' = "SignCommit"
                  /\ UNCHANGED << signing_info, outcome >>
  /\ UNCHANGED << overflow_checks, validate_vars, badge_vars, chain_vars,
                  flow_vars, op, network, now, nft, funding, spell, prover_calls,
                  prevouts, calls, ledger_txs, response, app_ids >>

\* what no settlement step touches
SettleFrame ==
  UNCHANGED << overflow_checks, validate_vars, badge_vars, chain_vars,
               flow_vars,
               op, network, now, nft, funding, spell, prover_calls,
               bitcoin_txs, signing_info, app_ids >>

WalletOutcomes == {"complete", "incomplete", "rpc_error"}

LedgerOutcomes == {"accepted", "rejected"}

MutantSignCommitUnchecked(res) ==
  /\ pc = "SignCommit"
  /\ Len(bitcoin_txs) >= 1
  /\ calls' = Append(calls, << "sign_commit", res >>)
  /\ IF res \in {"complete", "incomplete"}
     THEN pc' = "SignSpell" /\ UNCHANGED outcome
     ELSE pc' = "Failed" /\ outcome' = "RpcError"
  /\ UNCHANGED << prevouts, ledger_txs, response >>
  /\ SettleFrame

\* sign_and_broadcast_*: sign_raw_transaction_with_wallet(&bitcoin_txs[0])
SignCommit(res) ==
  /\ pc = "SignCommit"
  /\ IF Len(bitcoin_txs) < 1
     THEN pc' = "Failed" /\ outcome' = "IndexPanic" /\ UNCHANGED calls
     ELSE /\ calls' = Append(calls, << "sign_commit", res >>)
          /\ IF res = "complete"
             THEN pc' = "SignSpell" /\ UNCHANGED outcome
             ELSE /\ pc' = "Failed"
                  /\ outcome' = IF res = "incomplete"
                                THEN "Failed to sign commit transaction"
                                ELSE "RpcError"
  /\ UNCHANGED << prevouts, ledger_txs, response >>
  /\ SettleFrame

\* the prevouts of the spell transaction, in the order they are passed
spell_prevouts ==
  IF IsUpdateOp(op)
  THEN << nft_prevout(unwrap(nft)), commit_prevout(bitcoin_txs[1]) >>
  ELSE << commit_prevout(bitcoin_txs[1]) >>

\* sign_and_broadcast_*: the prevouts are built (for an update after
\* get_raw_transaction has fetched the token's transaction) and
\* sign_raw_transaction_with_wallet(&bitcoin_txs[1], prevouts) is called
SignSpellOutcomes ==
  IF IsUpdateOp(op) THEN WalletOutcomes \cup {"lookup_error"}
  ELSE WalletOutcomes

SignSpell(res) ==
  /\ pc = "SignSpell"
  /\ IF res = "lookup_error"
     THEN /\ pc' = "Failed"
          /\ outcome' = "RpcError"
          /\ UNCHANGED << calls, prevouts >>
     ELSE IF Len(bitcoin_txs) < 2
     THEN /\ pc' = "Failed"
          /\ outcome' = "IndexPanic"
          /\ UNCHANGED << calls, prevouts >>
     ELSE /\ prevouts' = spell_prevouts
          /\ calls' = Append(calls, << "sign_spell", res >>)
          /\ IF res = "complete"
             THEN pc' = "BroadcastCommit" /\ UNCHANGED outcome
             ELSE /\ pc' = "Failed"
                  /\ outcome' = IF res = "incomplete"
                                THEN "Failed to sign spell transaction"
                                ELSE "RpcError"
  /\ UNCHANGED << ledger_txs, response >>
  /\ SettleFrame

\* broadcast_nft up to its first send_raw_transaction: both arguments are
\* decoded and deserialised before anything is sent
BroadcastFrame ==
  UNCHANGED << overflow_checks, validate_vars, badge_vars, chain_vars,
               flow_vars,
               network, now, prover_calls, signing_info, prevouts, calls,
               ledger_txs, response, app_ids >>

\* a broadcast_nft that sends the commit transaction as soon as it is
\* decoded, before it looks at the spell transaction
MutantBroadcastNftCommitFirst(signed_commit_hex, signed_spell_hex) ==
  /\ pc = "Idle"
  /\ op' = "broadcast_nft"
  /\ nft' = None /\ funding' = None /\ spell' = None
  /\ LET commit_bytes == hex_decode(signed_commit_hex)
         commit_tx == deserialize(unwrap(commit_bytes))
         spell_bytes == hex_decode(signed_spell_hex)
         spell_tx == deserialize(unwrap(spell_bytes))
     IN  IF is_none(commit_bytes) \/ is_none(commit_tx)
         THEN /\ pc' = "Failed"
              /\ outcome' = "DecodeError"
              /\ bitcoin_txs' = << >>
              /\ UNCHANGED << calls, ledger_txs >>
         ELSE IF is_none(spell_bytes) \/ is_none(spell_tx)
         THEN /\ pc' = "Failed"
              /\ outcome' = "DecodeError"
              /\ bitcoin_txs' = << unwrap(commit_tx) >>
              /\ calls' = Append(calls, << "broadcast_commit", "accepted" >>)
              /\ ledger_txs' = ledger_txs \cup {unwrap(commit_tx).txid}
         ELSE /\ pc' = "BroadcastCommit"
              /\ outcome' = "Running"
              /\ bitcoin_txs' = << unwrap(commit_tx), unwrap(spell_tx) >>
              /\ UNCHANGED << calls, ledger_txs >>
  /\ UNCHANGED << overflow_checks, validate_vars, badge_vars, chain_vars,
                  flow_vars, network, now, prover_calls, signing_info,
                  prevouts, response, app_ids >>

broadcast_nft(signed_commit_hex, signed_spell_hex) ==
  /\ pc = "Idle"
  /\ op' = "broadcast_nft"
  /\ nft' = None /\ funding' = None /\ spell' = None
  /\ LET commit_bytes == hex_decode(signed_commit_hex)
         commit_tx == deserialize(unwrap(commit_bytes))
         spell_bytes == hex_decode(signed_spell_hex)
         spell_tx == deserialize(unwrap(spell_bytes))
     IN  IF \/ is_none(commit_bytes) \/ is_none(commit_tx)
            \/ is_none(spell_bytes) \/ is_none(spell_tx)
         THEN /\ pc' = "Failed"
              /\ outcome' = "DecodeError"
              /\ bitcoin_txs' =
                   IF is_none(commit_bytes) \/ is_none(commit_tx) THEN << >>
                   ELSE << unwrap(commit_tx) >>
         ELSE /\ pc' = "BroadcastCommit"
              /\ outcome' = "Running"
              /\ bitcoin_txs' = << unwrap(commit_tx), unwrap(spell_tx) >>
  /\ BroadcastFrame

\* send_raw_transaction: the ledger refuses a transaction it already holds
\* and one that spends an output of a transaction it does not hold yet
SendOutcomes(tx) ==
  IF \/ tx.txid \in ledger_txs
     \/ \E i \in 1..Len(tx.ins) :
          tx.ins[i][1] \in {"commit", "spell"} /\ tx.ins[i][1] \notin ledger_txs
  THEN {"rejected"}
  ELSE LedgerOutcomes

MutantBroadcastCommitBeforeSpellSigned(res) ==
  /\ pc \in {"SignSpell", "BroadcastCommit"}
  /\ res \in SendOutcomes(bitcoin_txs[1])
  /\ calls' = Append(calls, << "broadcast_commit", res >>)
  /\ IF res = "accepted"
     THEN /\ ledger_txs' = ledger_txs \cup {bitcoin_txs[1].txid}
          /\ pc' = "BroadcastSpell"
          /\ UNCHANGED outcome
     ELSE /\ pc' = "Failed"
          /\ outcome' = "RpcError"
          /\ UNCHANGED ledger_txs
  /\ UNCHANGED << prevouts, response >>
  /\ SettleFrame

\* settlement: send_raw_transaction of the commit transaction; its error is
\* returned as it is
BroadcastCommit(res) ==
  /\ pc = "BroadcastCommit"
  /\ res \in SendOutcomes(bitcoin_txs[1])
  /\ calls' = Append(calls, << "broadcast_commit", res >>)
  /\ IF res = "accepted"
     THEN /\ ledger_txs' = ledger_txs \cup {bitcoin_txs[1].txid}
          /\ pc' = "BroadcastSpell"
          /\ UNCHANGED outcome
     ELSE /\ pc' = "Failed"
          /\ outcome' = "RpcError"
          /\ UNCHANGED ledger_txs
  /\ UNCHANGED << prevouts, response >>
  /\ SettleFrame

MutantBroadcastSpellSwapped(res) ==
  /\ pc = "BroadcastSpell"
  /\ res \in SendOutcomes(bitcoin_txs[2])
  /\ calls' = Append(calls, << "broadcast_spell", res >>)
  /\ IF res = "accepted"
     THEN /\ ledger_txs' = ledger_txs \cup {bitcoin_txs[2].txid}
          /\ response' = << bitcoin_txs[2].txid, bitcoin_txs[1].txid >>
          /\ pc' = "Done"
          /\ outcome' = "Ok"
     ELSE /\ pc' = "Failed"
          /\ outcome' = "RpcError"
          /\ UNCHANGED << ledger_txs, response >>
  /\ UNCHANGED prevouts
  /\ SettleFrame

\* settlement: send_raw_transaction of the spell transaction; on success
\* the two identifiers the ledger returned are the result, on failure the
\* ledger's error is returned as it is
BroadcastSpell(res) ==
  /\ pc = "BroadcastSpell"
  /\ res \in SendOutcomes(bitcoin_txs[2])
  /\ calls' = Append(calls, << "broadcast_spell", res >>)
  /\ IF res = "accepted"
     THEN /\ ledger_txs' = ledger_txs \cup {bitcoin_txs[2].txid}
          /\ response' = << bitcoin_txs[1].txid, bitcoin_txs[2].txid >>
          /\ pc' = "Done"
          /\ outcome' = "Ok"
     ELSE /\ pc' = "Failed"
          /\ outcome' = "RpcError"
          /\ UNCHANGED << ledger_txs, response >>
  /\ UNCHANGED prevouts
  /\ SettleFrame

\* the signed transactions a caller of broadcast_nft holds: those of a
\* creation and of an update, and three strings that are none
SignedTxCases ==
  LET f == Utxo(Outpoint("fund", 0), 5000, WalletScript, Some("alice123"))
      created == ProverTxs(f, create_unsigned_spell("alice123", "Meditation",
                                                    1), 600)
      updated == ProverTxs(f, update_spell(Outpoint("nft", 0), "alice123",
                                           "Meditation", 0, 1), 600)
  IN  {created[1], created[2], updated[2]}

SignedHexCases ==
  {hex_encode(serialize(tx)) : tx \in SignedTxCases}
    \cup {<< "0" >>, << "z", "z" >>, << "0", "2", "0", "1" >>}

\* create_nft / update_nft: "{spell_txid}:0", the spell identifier being
\* the second of the two results
new_nft_utxo == Outpoint(response[2], 0)

NextClient ==
  \/ \E utxos \in WalletCases, h \in HabitNames, t \in NowCases :
       create_nft(utxos, h, t)
  \/ \E f \in FundingCases, h \in HabitNames, t \in NowCases :
       create_nft_unsigned(f, h, t)
  \/ \E utxos \in WalletCases, token \in NftCases, t \in NowCases :
       \E nft_utxo \in NftUtxoCases(token),
          shown \in ShowSpellCases(token.state) :
          update_nft(utxos, token, shown, nft_utxo, t)
  \/ \E token \in NftCases, f \in FundingCases, t \in NowCases :
       \E nft_utxo \in NftUtxoCases(token),
          shown \in ShowSpellCases(token.state) :
          update_nft_unsigned(token, shown, nft_utxo, f, t)
  \/ \E token \in NftCases, log_info \in BOOLEAN :
       \E nft_utxo \in NftUtxoCases(token),
          shown \in ShowSpellCases(token.state) :
          view_nft(token, shown, nft_utxo, log_info)
  \/ \E res \in ProverOutcomes, cv \in CommitValueCases :
       \E count \in ProverTxCounts : ProverReturns(res, cv, count)
  \/ \E res \in WalletOutcomes : SignCommit(res)
  \/ \E res \in SignSpellOutcomes : SignSpell(res)
  \/ \E res \in LedgerOutcomes : BroadcastCommit(res)
  \/ \E res \in LedgerOutcomes : BroadcastSpell(res)
  \/ \E c \in SignedHexCases, sp \in SignedHexCases : broadcast_nft(c, sp)

SpecClient == InitClient /\ [][NextClient]_vars

\* the same, with every call of settlement returning: settlement is
\* straight-line code, so whenever one of its steps is possible one is taken
SettleStep ==
  \/ \E res \in WalletOutcomes : SignCommit(res)
  \/ \E res \in SignSpellOutcomes : SignSpell(res)
  \/ \E res \in LedgerOutcomes : BroadcastCommit(res)
  \/ \E res \in LedgerOutcomes : BroadcastSpell(res)

SpecClientFair == SpecClient /\ WF_vars(SettleStep)

(***************************************************************************)
(* Claims about the client (checked under SpecClient)                      *)
(***************************************************************************)
\* the (tx_index, input_index) pairs of a signing plan, in plan order
PlanShape(plan) ==
  [i \in 1..Len(plan) |-> << plan[i].tx_index, plan[i].input_index >>]

\* the (tx_index, input_index) pairs of all inputs of the commit
\* transaction (index 0) followed by those of the spell transaction (1)
InputsOf(txs) ==
  [i \in 1..Len(txs[1].ins) |-> << 0, i - 1 >>]
    \o [i \in 1..Len(txs[2].ins) |-> << 1, i - 1 >>]

\* C13: the plan returned by update_nft_unsigned has exactly 3 descriptors,
\* in the order (commit, 0), (spell, 0), (spell, 1); the plan returned by
\* create_nft_unsigned has exactly 2, (commit, 0), (spell, 0); in both
\* cases one descriptor per input of the two transactions.
C13_PlanShape ==
  pc = "Returned" =>
     /\ op = "update_nft_unsigned" =>
          PlanShape(signing_info) = << <<0, 0>>, <<1, 0>>, <<1, 1>> >>
     /\ op = "create_nft_unsigned" =>
          PlanShape(signing_info) = << <<0, 0>>, <<1, 0>> >>
     /\ PlanShape(signing_info) = InputsOf(bitcoin_txs)

\* C13 witness: update_nft_unsigned has returned a plan of 3 descriptors
\* for a spell transaction with 2 inputs.
C13_Witness ==
  /\ pc = "Returned"
  /\ op = "update_nft_unsigned"
  /\ Len(signing_info) = 3
  /\ Len(bitcoin_txs[2].ins) = 2
  /\ outcome = "Ok"

\* the output an outpoint names: the funding output, the token output (both
\* as the ledger holds them) or output 0 of the commit transaction
SpentOutput(outpoint) ==
  IF is_some(funding) /\ outpoint = unwrap(funding).id
  THEN TxOut(unwrap(funding).script, unwrap(funding).amount)
  ELSE IF is_some(nft) /\ outpoint = unwrap(nft).utxo_id
  THEN TxOut(unwrap(nft).script, unwrap(nft).amount)
  ELSE bitcoin_txs[1].outs[1]

\* the descriptors of a returned plan carry script and amount of the output
\* their input spends
PlanCarriesPrevouts ==
  \A i \in 1..Len(signing_info) :
     LET d == signing_info[i]
         spent == SpentOutput(bitcoin_txs[d.tx_index + 1].ins[d.input_index + 1])
     IN  /\ d.prev_script_hex = hex_encode(spent.script)
         /\ d.amount_sats = spent.value

\* the prevouts passed with the spell transaction describe its inputs, in
\* input order
PrevoutsMatchSpellInputs ==
  /\ Len(prevouts) = Len(bitcoin_txs[2].ins)
  /\ \A i \in 1..Len(prevouts) :
       LET spent == SpentOutput(bitcoin_txs[2].ins[i]) IN
       /\ Outpoint(prevouts[i].txid, prevouts[i].vout) = bitcoin_txs[2].ins[i]
       /\ prevouts[i].script_pub_key = spent.script
       /\ prevouts[i].amount = spent.value

\* C14 (as claimed): every descriptor of a signing plan carries the script
\* and the amount of the output its input spends (funding output for the
\* commit input, previous token output for spell input 0 of an update,
\* commit output 0 for the last spell input), and on the signing path the
\* spell's prevouts are supplied in the order of the spell's inputs.
C14_DescriptorsCarryPrevouts ==
  /\ pc = "Returned" => PlanCarriesPrevouts
  /\ prevouts # << >> => PrevoutsMatchSpellInputs

\* C15 (as claimed): each of create_nft, create_nft_unsigned, update_nft
\* and update_nft_unsigned, run with a funding output worth less than
\* MIN_FUNDING_SATS, returns the insufficient-funds error without having
\* called the prover.
C15_InsufficientFundsRefused ==
  (op # "None" /\ is_some(funding)
     /\ unwrap(funding).amount < MIN_FUNDING_SATS)
  => (outcome = "InsufficientFunds" /\ prover_calls = 0)

\* the next state a spell proposes: the charm of its first output
SpellNext == unwrap(spell).outs[1].charm

\* C16 (as claimed): every update spell built from a ledger state with
\* counter c proposes total_sessions = c + 1 (in the integers), badges =
\* get_badges_for_sessions(c + 1) and a last_updated timestamp; every
\* genesis spell proposes total_sessions = 0, no badges and no last_updated.
C16_DescriptorNextState ==
  is_some(spell) =>
     IF IsUpdateOp(op)
     THEN LET c == unwrap(nft).state.total_sessions IN
          /\ SpellNext.total_sessions = c + 1
          /\ SpellNext.badges = nft_get_badges_for_sessions(c + 1)
          /\ is_some(SpellNext.last_updated)
     ELSE /\ SpellNext.total_sessions = 0
          /\ SpellNext.badges = << >>
          /\ is_none(SpellNext.last_updated)

\* the validator's verdict on the spell's next state against the token's
\* current ledger state
LedgerVerdict ==
  validate_habit_logic(Some(unwrap(nft).state), SpellNext)

\* C17 (as claimed): no update spell that the validator rejects against
\* the token's current ledger state (in particular one stamped less than
\* MIN_UPDATE_INTERVAL_SECS after the ledger state's last_updated) reaches
\* the prover: the builder refuses it with prove_with_cli never called.
C17_RejectedBeforeProver ==
  (IsUpdateOp(op) /\ is_some(spell) /\ ~Accepted(LedgerVerdict))
  => prover_calls = 0

\* the names of the wallet and broadcast calls made so far, in call order
CallNames == [i \in 1..Len(calls) |-> calls[i][1]]

SettlementOrder ==
  << "sign_commit", "sign_spell", "broadcast_commit", "broadcast_spell" >>

Broadcasts == {"broadcast_commit", "broadcast_spell"}

\* the operations that sign: sign_and_broadcast_create / _update
IsSigningOp(o) == o \in {"create_nft", "update_nft"}

\* the calls an operation's settlement makes when nothing fails
CallsOf(o) ==
  IF IsSigningOp(o) THEN SettlementOrder
  ELSE << "broadcast_commit", "broadcast_spell" >>

\* C18: settlement calls sign commit, sign spell, broadcast commit,
\* broadcast spell in this order; a broadcast is made only after both
\* transactions were signed completely, and the spell is broadcast only
\* after the commit broadcast was accepted.
C18_SettlementOrder ==
  /\ IsPrefix(CallNames, CallsOf(op))
  /\ \A i \in 1..Len(calls) :
       (IsSigningOp(op) /\ calls[i][1] \in Broadcasts) =>
          /\ calls[1] = << "sign_commit", "complete" >>
          /\ calls[2] = << "sign_spell", "complete" >>
  /\ \A i \in 1..Len(calls) :
       calls[i][1] = "broadcast_spell" =>
          /\ i > 1
          /\ calls[i - 1] = << "broadcast_commit", "accepted" >>
  /\ "commit" \in ledger_txs =>
       \E i \in 1..Len(calls) : calls[i] = << "broadcast_commit", "accepted" >>
  /\ "spell" \in ledger_txs => "commit" \in ledger_txs

\* C18 witness: an update has been settled with all four calls made in
\* order and both transactions on the ledger.
C18_Witness ==
  /\ op = "update_nft"
  /\ pc = "Done"
  /\ CallNames = SettlementOrder
  /\ ledger_txs = {"commit", "spell"}

SigningIncompleteErrors ==
  { "Failed to sign commit transaction", "Failed to sign spell transaction" }

\* C19: when the wallet reports an incomplete signature for the commit or
\* for the spell transaction, settlement ends with the signing error of
\* that transaction, that call is the last one made, and nothing was
\* broadcast; after an incomplete commit signature the spell is never
\* handed to the wallet.
C19_IncompleteSigningStops ==
  \A i \in 1..Len(calls) :
     calls[i][2] = "incomplete" =>
        /\ i = Len(calls)
        /\ pc = "Failed"
        /\ outcome = (IF calls[i][1] = "sign_commit"
                      THEN "Failed to sign commit transaction"
                      ELSE "Failed to sign spell transaction")
        /\ \A j \in 1..Len(calls) : calls[j][1] \notin Broadcasts
        /\ ledger_txs = {}
        /\ calls[1] = << "sign_commit", "incomplete" >> =>
             (Len(calls) = 1 /\ prevouts = << >>)

\* C19 witness: create_nft's commit was signed, the wallet then reported
\* the spell signature incomplete; settlement failed with nothing broadcast.
C19_Witness ==
  /\ op = "create_nft"
  /\ calls = << << "sign_commit", "complete" >>,
                << "sign_spell", "incomplete" >> >>
  /\ outcome = "Failed to sign spell transaction"
  /\ ledger_txs = {}

\* C20 (as claimed): on a regtest network settlement is atomic: when it
\* has ended, either both the commit and the spell transaction were
\* accepted by the ledger or neither was.
C20_RegtestAtomic ==
  (network = "regtest" /\ pc \in {"Done", "Failed"})
  => ("commit" \in ledger_txs <=> "spell" \in ledger_txs)

\* C21 (as claimed): when the commit transaction was accepted and the
\* spell broadcast then failed, the failure settlement returns carries the
\* commit transaction's identifier and differs from the failure returned
\* when the commit broadcast itself is rejected ("RpcError", nothing
\* broadcast).
C21_PartialFailureReported ==
  (pc = "Failed" /\ ledger_txs # {}) =>
     /\ \E i \in 1..Len(response) : response[i] = bitcoin_txs[1].txid
     /\ outcome # "RpcError"

\* C22: on success settlement returns exactly two identifiers, the commit
\* transaction's first and the spell transaction's second, both accepted by
\* the ledger; the outpoint reported as the new token is output 0 of the
\* spell transaction, and for an update the spell transaction spends the
\* consumed outpoint, so the new outpoint differs from it.
C22_SuccessReturnsBothIds ==
  pc = "Done" =>
     /\ outcome = "Ok"
     /\ response = << bitcoin_txs[1].txid, bitcoin_txs[2].txid >>
     /\ response = << "commit", "spell" >>
     /\ ledger_txs = {response[1], response[2]}
     /\ new_nft_utxo = Outpoint(bitcoin_txs[2].txid, 0)
     /\ IsUpdateOp(op) =>
          /\ unwrap(nft).utxo_id = bitcoin_txs[2].ins[1]
          /\ new_nft_utxo # unwrap(nft).utxo_id

\* C22 witness: an update was settled and returned the two identifiers.
C22_Witness ==
  /\ op = "update_nft"
  /\ pc = "Done"
  /\ response = << "commit", "spell" >>
  /\ new_nft_utxo = Outpoint("spell", 0)

\* C22, second case: broadcast_nft decoded both transactions and returned
\* the two identifiers.
C22_BroadcastNftDone ==
  /\ op = "broadcast_nft"
  /\ pc = "Done"
  /\ response = << "commit", "spell" >>

(***************************************************************************)
(* SpecFlows: two update_nft runs (two processes on one wallet and one     *)
(* ledger) whose steps interleave.  The ledger enforces single-spend.  The *)
(* prover's answer to each run is fixed beforehand; the wallet signs every *)
(* transaction whose inputs it finds unspent.                              *)
(***************************************************************************)
FlowIds == {1, 2}

\* an output as the ledger holds it; `token` is the charm it carries
LedgerOutput(id, amount, mine, token) ==
  [id |-> id, amount |-> amount, mine |-> mine, token |-> token]

TokenState(name, total_sessions) ==
  [name |-> name, total_sessions |-> total_sessions]

TokenNames == {"T1", "T2"}

\* what a token output holds: the amount create_nft writes, or another
TokenAmountCases == {NFT_AMOUNT_SATS, 5000}

FlowTokenCases(s, a) ==
  << LedgerOutput(Outpoint("nft1", 0), a, TRUE, Some(TokenState("T1", s))),
     LedgerOutput(Outpoint("nft2", 0), a, TRUE, Some(TokenState("T2", s))) >>

FlowWalletCases ==
  LET F(i) == LedgerOutput(Outpoint("fund", i), 5000, TRUE, None)
  IN  { << >>, << F(0) >>, << F(0), F(1) >> }

\* btc.list_unspent: the wallet's unspent outputs
list_unspent == SelectSeq(unspent, LAMBDA o : o.mine)

IsUnspent(id) == \E i \in 1..Len(unspent) : unspent[i].id = id

\* get_raw_transaction: an output the ledger holds or has held
OutputAt(id) ==
  CHOOSE o \in {unspent[i] : i \in 1..Len(unspent)} \cup spent_outputs :
    o.id = id

MutantLedgerAcceptsAny(ins) == TRUE

\* send_raw_transaction: a transaction is accepted iff none of its inputs
\* has been spent
LedgerAccepts(ins) == \A i \in 1..Len(ins) : IsUnspent(ins[i])

\* the ledger after it accepted a transaction with these inputs and outputs
UnspentAfter(ins, outs) ==
  SelectSeq(unspent, LAMBDA o : \A i \in 1..Len(ins) : o.id # ins[i]) \o outs

SpentAfter(ins) ==
  spent_outputs \cup {OutputAt(ins[i]) : i \in 1..Len(ins)}

\* what update_nft returns when it runs with no other run beside it
AloneOutcome(utxos, nft_utxo, prover_ok) ==
  IF is_none(get_funding_utxo(SelectSeq(utxos, LAMBDA o : o.mine),
                              Some(format_outpoint(nft_utxo))))
  THEN "NoFundingUtxo"
  ELSE IF ~prover_ok THEN "ProverFailed" ELSE "Ok"

InitFlows ==
  /\ overflow_checks \in BOOLEAN
  /\ ValidateIdle
  /\ BadgeIdle
  /\ ChainIdle
  /\ ClientIdle
  /\ spent_outputs = {}
  /\ \E s \in {0, 2}, a \in TokenAmountCases, w \in FlowWalletCases :
       /\ unspent = FlowTokenCases(s, a) \o w
       /\ \E tk \in [FlowIds -> {1, 2}], ok \in [FlowIds -> BOOLEAN] :
            /\ tk[1] = 1
            /\ flows =
                 [f \in FlowIds |->
                    [pc |-> "Idle",
                     nft_utxo |-> FlowTokenCases(s, a)[tk[f]].id,
                     prover_ok |-> ok[f],
                     alone |-> AloneOutcome(FlowTokenCases(s, a) \o w,
                                            FlowTokenCases(s, a)[tk[f]].id,
                                            ok[f]),
                     funding_utxo |-> None,
                     current_sessions |-> None,
                     outcome |-> "Running"]]

FlowFrame ==
  UNCHANGED << overflow_checks, validate_vars, badge_vars, chain_vars,
               client_vars >>

FlowStep(f, to) == [flows EXCEPT ![f].pc = to]

FlowEnds(f, to, res) == [flows EXCEPT ![f].pc = to, ![f].outcome = res]

\* output 0 of the commit and of the spell transaction of run f
CommitOutpoint(f) == Outpoint(<< "commit1", "commit2" >>[f], 0)

SpellOutpoint(f) == Outpoint(<< "spell1", "spell2" >>[f], 0)

\* update_nft: get_funding_utxo(btc, Some(&nft_utxo))
FlowFunding(f) ==
  /\ flows[f].pc = "Idle"
  /\ LET found == get_funding_utxo(list_unspent,
                                   Some(format_outpoint(flows[f].nft_utxo)))
     IN
       flows' = IF is_none(found)
                THEN FlowEnds(f, "Failed", "NoFundingUtxo")
                ELSE [flows EXCEPT ![f].pc = "Metadata",
                                   ![f].funding_utxo = Some(unwrap(found).id)]
  /\ UNCHANGED << unspent, spent_outputs >>
  /\ FlowFrame

\* update_nft: extract_nft_metadata(btc, prev_txid)
FlowMetadata(f) ==
  /\ flows[f].pc = "Metadata"
  /\ flows' = [flows EXCEPT
                 ![f].pc = "Proving",
                 ![f].current_sessions =
                    Some(unwrap(OutputAt(flows[f].nft_utxo).token)
                           .total_sessions)]
  /\ UNCHANGED << unspent, spent_outputs >>
  /\ FlowFrame

\* update_nft: prove_with_cli
FlowProve(f) ==
  /\ flows[f].pc = "Proving"
  /\ flows' = IF flows[f].prover_ok THEN FlowStep(f, "SignCommit")
              ELSE FlowEnds(f, "Failed", "ProverFailed")
  /\ UNCHANGED << unspent, spent_outputs >>
  /\ FlowFrame

\* the wallet's answers for a transaction with these inputs
FlowSignOutcomes(ins) ==
  IF LedgerAccepts(ins) THEN {"complete"} ELSE {"complete", "incomplete"}

\* sign_and_broadcast_update: the commit transaction is signed
FlowSignCommit(f, res) ==
  /\ flows[f].pc = "SignCommit"
  /\ res \in FlowSignOutcomes(<< unwrap(flows[f].funding_utxo) >>)
  /\ flows' = IF res = "complete" THEN FlowStep(f, "SignSpell")
              ELSE FlowEnds(f, "Failed", "Failed to sign commit transaction")
  /\ UNCHANGED << unspent, spent_outputs >>
  /\ FlowFrame

\* sign_and_broadcast_update: the spell transaction is signed with the
\* prevouts of the token and of the commit output
FlowSignSpell(f, res) ==
  /\ flows[f].pc = "SignSpell"
  /\ res \in FlowSignOutcomes(<< flows[f].nft_utxo >>)
  /\ flows' = IF res = "complete" THEN FlowStep(f, "BroadcastCommit")
              ELSE FlowEnds(f, "Failed", "Failed to sign spell transaction")
  /\ UNCHANGED << unspent, spent_outputs >>
  /\ FlowFrame

\* sign_and_broadcast_update: send_raw_transaction(&signed_commit.hex)
FlowSendCommit(f) ==
  /\ flows[f].pc = "BroadcastCommit"
  /\ LET ins == << unwrap(flows[f].funding_utxo) >>
         outs == << LedgerOutput(CommitOutpoint(f), 600, FALSE, None) >>
     IN  IF LedgerAccepts(ins)
         THEN /\ unspent' = UnspentAfter(ins, outs)
              /\ spent_outputs' = SpentAfter(ins)
              /\ flows' = FlowStep(f, "BroadcastSpell")
         ELSE /\ flows' = FlowEnds(f, "Failed", "RpcError")
              /\ UNCHANGED << unspent, spent_outputs >>
  /\ FlowFrame

\* sign_and_broadcast_update: send_raw_transaction(&signed_spell.hex); the
\* spell transaction spends the token and the commit output, its output 0
\* carries the token with the counter the run read, plus one
FlowSendSpell(f) ==
  /\ flows[f].pc = "BroadcastSpell"
  /\ LET ins == << flows[f].nft_utxo, CommitOutpoint(f) >>
         name == unwrap(OutputAt(flows[f].nft_utxo).token).name
         next == next_sessions(unwrap(flows[f].current_sessions))
         outs == << LedgerOutput(SpellOutpoint(f), NFT_AMOUNT_SATS, TRUE,
                                 Some(TokenState(name, next))) >>
     IN  IF LedgerAccepts(ins)
         THEN /\ unspent' = UnspentAfter(ins, outs)
              /\ spent_outputs' = SpentAfter(ins)
              /\ flows' = FlowEnds(f, "Done", "Ok")
         ELSE /\ flows' = FlowEnds(f, "Failed", "RpcError")
              /\ UNCHANGED << unspent, spent_outputs >>
  /\ FlowFrame

NextFlows ==
  \/ \E f \in FlowIds : FlowFunding(f)
  \/ \E f \in FlowIds : FlowMetadata(f)
  \/ \E f \in FlowIds : FlowProve(f)
  \/ \E f \in FlowIds, res \in WalletOutcomes : FlowSignCommit(f, res)
  \/ \E f \in FlowIds, res \in WalletOutcomes : FlowSignSpell(f, res)
  \/ \E f \in FlowIds : FlowSendCommit(f)
  \/ \E f \in FlowIds : FlowSendSpell(f)

SpecFlows == InitFlows /\ [][NextFlows]_vars

\* the unspent outputs that carry the token `name`
TokenOutputs(name) ==
  { i \in 1..Len(unspent) :
      is_some(unspent[i].token) /\ unwrap(unspent[i].token).name = name }

SameToken == flows[1].nft_utxo = flows[2].nft_utxo

FlowEnded(f) == flows[f].pc \in {"Done", "Failed"}

\* C23: two update runs against the same token outpoint: under every
\* interleaving at most one run's spell transaction is accepted; at every
\* point at most one unspent output carries a token, and its counter is
\* the counter of the outpoint the runs were given or that counter plus 1.
C23_SameTokenSingleSpend ==
  /\ SameToken => ~(flows[1].pc = "Done" /\ flows[2].pc = "Done")
  /\ \A name \in TokenNames : Cardinality(TokenOutputs(name)) <= 1
  /\ \A f \in FlowIds :
       LET origin == unwrap(OutputAt(flows[f].nft_utxo).token) IN
         \A i \in TokenOutputs(origin.name) :
            unwrap(unspent[i].token).total_sessions
              \in {origin.total_sessions, origin.total_sessions + 1}

\* C23 witness: both runs were given the same outpoint and got as far as
\* the spell broadcast; the first was accepted, the second rejected with
\* its commit output left unspent.
C23_Witness ==
  /\ SameToken
  /\ flows[1].pc = "Done"
  /\ flows[2].pc = "Failed" /\ flows[2].outcome = "RpcError"
  /\ IsUnspent(CommitOutpoint(2))
  /\ Cardinality(TokenOutputs("T1")) = 1

\* the wallet held a funding output for each run when the runs began
FundingForEach ==
  Cardinality({ o \in {unspent[i] : i \in 1..Len(unspent)} \cup spent_outputs :
                  o.id[1] = "fund" }) >= Cardinality(FlowIds)

\* C24 (as claimed): two update runs for different tokens on a wallet that
\* holds a funding output for each end with the outcome each has when it
\* runs alone.
C24_DifferentTokensIndependent ==
  (~SameToken /\ FundingForEach) =>
     \A f \in FlowIds : FlowEnded(f) => flows[f].outcome = flows[f].alone

\* the outcomes that are panics on the caller's input or on the prover's
\* response (an arithmetic overflow ends with "Panic")
InputPanics == {"SlicePanic", "IndexPanic"}

\* C28 (as claimed): no client operation panics on a malformed token
\* identifier or on a prover response with fewer than two Bitcoin
\* transactions; each ends with a typed error.
C28_BadInputNeverPanics ==
  outcome \notin InputPanics

Settling ==
  /\ IsSigningOp(op)
  /\ pc \in {"SignCommit", "SignSpell", "BroadcastCommit", "BroadcastSpell"}

CommitAccepted ==
  \E i \in 1..Len(calls) : calls[i] = << "broadcast_commit", "accepted" >>

SpellAttempted == \E i \in 1..Len(calls) : calls[i][1] = "broadcast_spell"

\* settlement has returned Ok or an error value
EndedReported ==
  \/ pc = "Done" /\ outcome = "Ok"
  \/ pc = "Failed" /\ outcome \notin InputPanics

\* no run of sign_and_broadcast_* ends between the two broadcasts
NoReturnBetweenBroadcasts ==
  (IsSigningOp(op) /\ pc \in {"Done", "Failed"} /\ CommitAccepted)
  => SpellAttempted

\* C25 (as claimed): once the commit transaction was broadcast settlement
\* always goes on to attempt the spell broadcast, and when every call
\* returns every settlement run ends in success or in a reported error.
C25_SettlementCompletes ==
  /\ []NoReturnBetweenBroadcasts
  /\ Settling ~> EndedReported

\* C26 (as claimed): the owner an update writes into the new token state is
\* the owner of the token's state on the ledger, whichever address funds
\* or requests the update.
C26_UpdateKeepsLedgerOwner ==
  (IsUpdateOp(op) /\ is_some(spell)) =>
     SpellNext.owner = unwrap(nft).state.owner

\* C27 (as claimed): validate_habit_logic is total: every call returns an
\* accept or reject verdict and none traps, also when the predecessor's
\* total_sessions is the maximum u64 value or the difference of the two
\* timestamps leaves the i64 range.
C27_ValidatorTotal ==
  Called => result # "Panic"

\* a state with its display fields replaced
WithDisplay(c, d) ==
  [c EXCEPT !.name = d.name, !.description = d.description,
            !.habit_name = d.habit_name, !.created_at = d.created_at]

\* C29: the verdict depends only on owner, total_sessions, last_updated and
\* badges: replacing name, description, habit_name and created_at of the
\* previous state, of the next state or of both leaves the verdict of the
\* call unchanged, so an update that changes habit_name is accepted
\* whenever the same update without the change is.
C29_DisplayIgnored ==
  Called =>
     \A d1 \in DisplayCases, d2 \in DisplayCases :
        validate_habit_logic(
          IF is_some(input_nft) THEN Some(WithDisplay(Prev, d1)) ELSE None,
          WithDisplay(Proposed, d2)) = result

\* C29 witness: an update that changes every display field was accepted.
C29_Witness ==
  /\ IsUpdateCall
  /\ result = "Valid"
  /\ Prev.habit_name # Proposed.habit_name
  /\ Prev.name # Proposed.name
  /\ Prev.created_at # Proposed.created_at

\* the token state before and after a step both carry last_updated, and
\* the two timestamps are at least the minimum interval apart
StampedApart ==
  LET p == unwrap(utxo).last_updated
      n == unwrap(utxo').last_updated
  IN  /\ is_some(p) /\ is_some(n)
      /\ unwrap(n) - unwrap(p) >= MIN_UPDATE_INTERVAL_SECS

\* C30 (as claimed): in every chain of accepted transitions two consecutive
\* non-genesis token states have last_updated timestamps at least
\* MIN_UPDATE_INTERVAL_SECS apart.
C30_MinIntervalBetweenUpdates ==
  [][(updates >= 1 /\ updates' = updates + 1) => StampedApart]_vars

\* C31 (as claimed): along every chain of accepted transitions, from any
\* accepted genesis state, the badges of a token state are a prefix of the
\* badges of its successor: a badge once held is never absent later.
C31_BadgesNeverLost ==
  [][(is_some(utxo) /\ is_some(utxo')) =>
        IsPrefix(unwrap(utxo).badges, unwrap(utxo').badges)]_vars

\* the previous state an update spell states: the charm of its first input
SpellPrev == unwrap(spell).ins[1].charm

\* C32 (as claimed): the previous state an update builder puts into its
\* spell equals the token's state on the ledger in owner, total_sessions,
\* last_updated and badges, so the validator's verdict on the spell's
\* (previous, next) pair is its verdict against the ledger state.
C32_DescriptorPrevIsLedgerState ==
  (IsUpdateOp(op) /\ is_some(spell)) =>
     LET ledger == unwrap(nft).state IN
       /\ SpellPrev.owner = ledger.owner
       /\ SpellPrev.total_sessions = ledger.total_sessions
       /\ SpellPrev.last_updated = ledger.last_updated
       /\ SpellPrev.badges = ledger.badges
       /\ validate_habit_logic(Some(SpellPrev), SpellNext) = LedgerVerdict

\* C33: a spell with no readable token output is refused as a missing
\* output, with a token among its inputs (Update) and without one (Create);
\* the verdict is the missing output and none of the transition rules'
\* outcomes, and the ledger's token state and update count stay as they were.
C33_MissingOutputRejected ==
  [][(Create(None) \/ Update(None)) =>
        /\ verdict' = "MissingOutput"
        /\ ~Accepted(verdict')
        /\ utxo' = utxo
        /\ updates' = updates]_vars

\* C33 witness: a token is on the ledger after an accepted update, and a
\* spell that spends it without a token output has just been refused.
C33_Witness ==
  /\ is_some(utxo)
  /\ updates > 0
  /\ verdict = "MissingOutput"

\* whether a show-spell response holds a readable counter and habit name
Readable(charms) ==
  /\ is_some(as_u64(charms.total_sessions))
  /\ is_some(as_str(charms.habit_name))

\* C34 (as claimed): extract_nft_metadata answers every response that lacks
\* a readable total_sessions or habit_name with an error, and an update
\* spell states the counter and the habit name of the token on the ledger,
\* never a substituted 0 or "Meditation".
C34_NoDefaultSubstituted ==
  (IsUpdateOp(op) /\ is_some(nft)) =>
     /\ \A charms \in ShowSpellCases(unwrap(nft).state) :
          ~Readable(charms) => extract_nft_metadata(charms).err # "None"
     /\ is_some(spell) =>
          /\ SpellPrev.total_sessions = unwrap(nft).state.total_sessions
          /\ SpellPrev.habit_name = unwrap(nft).state.habit_name

\* the wallet outputs a run may be funded with: not 1000 sats, and not the
\* outpoint the run excludes
Usable(excluded) ==
  { i \in 1..Len(list_unspent) :
      list_unspent[i].amount # 1000 /\ list_unspent[i].id # excluded }

\* C35: whenever a run asks for funding with its token outpoint excluded,
\* the output it is given is not that outpoint and does not hold exactly
\* 1000 sats; when every wallet output is the excluded one or holds 1000
\* sats, the run gets no output and ends with the no-funding error.
C35_FundingExcludesToken ==
  [][\A f \in FlowIds :
       FlowFunding(f) =>
         LET excluded == flows[f].nft_utxo
             chosen == flows'[f].funding_utxo
         IN  /\ is_some(chosen) =>
                  /\ unwrap(chosen) # excluded
                  /\ OutputAt(unwrap(chosen)).amount # 1000
             /\ Usable(excluded) = {} =>
                  /\ is_none(chosen)
                  /\ flows'[f].pc = "Failed"
                  /\ flows'[f].outcome = "NoFundingUtxo"]_vars

\* C35 witness: the first wallet output is the run's own token output and
\* holds 5000 sats; the run was given another output as funding.
C35_Witness ==
  /\ unspent[1].id = flows[1].nft_utxo
  /\ unspent[1].amount = 5000
  /\ flows[1].pc = "Metadata"
  /\ is_some(flows[1].funding_utxo)
  /\ unwrap(flows[1].funding_utxo) # flows[1].nft_utxo

BuilderOps ==
  {"create_nft", "update_nft", "create_nft_unsigned", "update_nft_unsigned"}

\* C36: when the prover call of one of the four builders failed, the run
\* has ended with that error: no wallet or ledger call was made, no signing
\* plan and no transaction ids were returned, and the ledger holds nothing
\* from the run.
C36_ProverFailureStopsRun ==
  /\ outcome = "ProverFailed" =>
       /\ op \in BuilderOps
       /\ pc = "Failed"
       /\ calls = << >>
       /\ ledger_txs = {}
       /\ signing_info = << >>
       /\ response = << >>
  /\ (op \in BuilderOps /\ calls # << >>) => bitcoin_txs # << >>

\* C36 witness: update_nft built its spell and called the prover once; the
\* prover failed and the run ended without a call to the wallet or ledger.
C36_Witness ==
  /\ op = "update_nft"
  /\ prover_calls = 1
  /\ is_some(spell)
  /\ outcome = "ProverFailed"
  /\ pc = "Failed"
  /\ calls = << >>

\* the contract's verdict on an update spell: run for the spell's app on
\* the token output the spell spends and on the state the spell writes
AppVerdict ==
  nft_contract_satisfied(charm_values(unwrap(spell).app, unwrap(nft)),
                         Some(SpellNext))

\* C37 (as claimed): the app id of an update spell is the app id the token
\* was created under, so the contract finds the token's state among the
\* spell's inputs and never answers an update through its genesis branch.
C37_UpdateKeepsAppId ==
  (IsUpdateOp(op) /\ is_some(spell)) =>
     /\ unwrap(spell).app = unwrap(nft).app
     /\ is_some(charm_values(unwrap(spell).app, unwrap(nft)))
     /\ AppVerdict # "Creation"

(***************************************************************************)
(* SpecApps: the genesis builders called one after the other, each call    *)
(* in a handler of its own.                                                *)
(***************************************************************************)
MaxCreates == 2

RunEnded == pc \in {"Failed", "Returned", "Done", "Viewed"}

\* the next request is served: a fresh run, with what earlier runs gave out
NextCall ==
  /\ RunEnded
  /\ Len(app_ids) < MaxCreates
  /\ op' = "None"
  /\ pc' = "Idle"
  /\ now' = 0
  /\ nft' = None
  /\ funding' = None
  /\ spell' = None
  /\ prover_calls' = 0
  /\ bitcoin_txs' = << >>
  /\ signing_info' = << >>
  /\ prevouts' = << >>
  /\ calls' = << >>
  /\ outcome' = "Running"
  /\ ledger_txs' = {}
  /\ response' = << >>
  /\ UNCHANGED << overflow_checks, validate_vars, badge_vars, chain_vars,
                  flow_vars, network, app_ids >>

NextApps ==
  \/ \E utxos \in WalletCases, h \in HabitNames, t \in NowCases :
       create_nft(utxos, h, t)
  \/ \E f \in FundingCases, h \in HabitNames, t \in NowCases :
       create_nft_unsigned(f, h, t)
  \/ \E res \in ProverOutcomes, cv \in CommitValueCases :
       \E count \in ProverTxCounts : ProverReturns(res, cv, count)
  \/ NextCall

SpecApps == InitClient /\ [][NextApps]_vars

\* C38 (as claimed): the genesis spells built by separate calls with the
\* same verification key carry pairwise different app ids, whatever the
\* clock read at each call.
C38_AppIdsDistinct ==
  \A i, j \in 1..Len(app_ids) : i # j => app_ids[i] # app_ids[j]

\* C39: when broadcast_nft fails to decode or deserialize either of its
\* two arguments it has sent nothing: no broadcast call was made and the
\* ledger holds no transaction of the run; a broadcast call is made only
\* once both transactions are decoded.
C39_DecodeBeforeBroadcast ==
  /\ (op = "broadcast_nft" /\ outcome = "DecodeError") =>
        /\ pc = "Failed"
        /\ calls = << >>
        /\ ledger_txs = {}
        /\ response = << >>
  /\ (op = "broadcast_nft" /\ calls # << >>) => Len(bitcoin_txs) = 2

\* C39 witness: the commit transaction was decoded and the spell
\* transaction was not; the run ended with nothing sent.
C39_Witness ==
  /\ op = "broadcast_nft"
  /\ outcome = "DecodeError"
  /\ Len(bitcoin_txs) = 1
  /\ bitcoin_txs[1].txid = "commit"
  /\ calls = << >>
  /\ ledger_txs = {}

====
